---- MODULE Spec2Model ----
(***************************************************************************)
(* Verification model of the RediSearch core.                              *)
(*                                                                         *)
(* Part I  : index_versions table and IndexVersionStore, driven by         *)
(*           builder threads and API callers that share the process-wide   *)
(*           sqlite3 connection (storage/connection.py).                   *)
(* Part II : jobs table, JobStore and the Worker pool.                     *)
(*                                                                         *)
(* Every execute() on the shared connection is one atomic step; a          *)
(* "with conn:" block is a sequence of such steps followed by a commit     *)
(* (or, when a statement raised, a rollback) of the connection's single    *)
(* transaction.                                                            *)
(***************************************************************************)
EXTENDS Integers, Sequences, FiniteSets, TLC

(***************************************************************************)
(* Bounds of the model.                                                    *)
(***************************************************************************)
NumThreads == 2
NumSearchers == 2
MaxVersion == 2
MaxRowId == 2

NumWorkers == 2
MaxJobs == 2
MaxClock == 1
MaxAge == 1
MaxRetries == 2
MaxAdminRetries == 1

\* clock ticks per calendar day; MaxClock counts the date changes of a worker run
TicksPerDay == 2

\* direct calls of the JobStore methods
MaxStoreJobs == 2
MaxStoreClock == 2
MaxStoreRetries == 1
MaxKeep == 2

\* compute_plan: document counts 0..MaxDocs against the threshold
MinDocsForOwnShard == 2
MaxDocs == 3

\* raw_posts / processed_posts: post ids 1..MaxPosts, pipeline versions 1..MaxPipeline
MaxPosts == 2
MaxPipeline == 2

\* Trie: up to MaxTrieSize terms of up to MaxTermLen characters, scores
\* -NegScores..MaxScore, top_k in 0..MaxTopK
MaxTrieSize == 2
MaxTermLen == 2
NegScores == 1
MaxScore == 1
MaxTopK == 2

\* pagination: result lists of 0..MaxHits hits, page_size in 1..MaxPageSize
MaxHits == 10
MaxPageSize == 4

\* RateLimiter: NumCallers request threads, capacity LimCapacity, up to
\* MaxCalls is_allowed calls per client key
NumCallers == 2
LimCapacity == 2
MaxCalls == 3

\* linear_combination: largest raw score and longest hit list
MaxRaw == 2
MaxFuseLen == 2

\* BM25 index: documents of a shard, count of a term in a document, query length
MaxBmDocs == 2
MaxTf == 2
MaxQueryLen == 3

\* RateLimiter with eviction: capacity, largest eviction_ttl, clock
EvCapacity == 2
MaxTtl == 1
MaxEvClock == 3

\* PrefixSuggester: request threads, builds of trie files
NumSuggesters == 2
MaxTrieBuilds == 3

\* POST /pipeline/run: concurrent requests, threads started in all
NumRunRequests == 2
MaxPipelineThreads == 3

\* index_versions tables given to activate: rows, largest version
MaxActRows == 3
MaxActVersion == 2

\* JobSettings.max_retries default
DefaultMaxRetries == 3

Threads == 1..NumThreads
Workers == 1..NumWorkers
JobTypes == {"work", "bad", "unknown"}
Null == -1
IndexTypes == {"bm25"}
ShardIds == {"shard_x"}
Statuses == {"building", "active", "stale"}
NoRow == [id |-> 0]

VARIABLES
    rows,        \* index_versions as seen through the shared connection
    seq,         \* number of INSERTs executed; the id (row identity) of the last one
    committed,   \* index_versions as of the last commit on the connection
    pc,          \* per thread: position inside the store method it runs
    loc,         \* per thread: arguments and locals of the running call
    got,         \* what the last get_active call of a reader returned
    jobs,        \* jobs table: id -> row, as seen through the shared connection
    jobSeq,      \* AUTOINCREMENT counter of jobs
    now,         \* the clock (datetime.now / sqlite 'now'), in ticks
    max_retries, \* JobSettings.max_retries of the running workers
    wk,          \* per worker: position in Worker._tick and its locals
    adm,         \* the admin retry endpoint: position and job id
    tr,          \* per job: history counters used by the properties
    ret,         \* the last JobStore method called directly, and what it returned
    files,       \* index files on disk: path -> content written by index.save
    cache,       \* BM25Searcher._cache: cache key (resolved path) -> loaded object
    loads,       \* per path: how many times BM25InvertedIndex.load has read it
    sr,          \* per request thread: position in BM25Searcher.search / its locals
    lastDone,    \* per shard: the version of the activate call that returned last
    plan,        \* shard_assignments: subreddit -> shard_id
    raw,         \* raw_posts: the rows, each an id with its subreddit
    processed,   \* processed_posts: id -> row (subreddit, pipeline_version)
    trie,        \* the autocomplete Trie: its nodes and its size
    lim,         \* the RateLimiter: buckets, and each caller's position
    bm,          \* one BM25 shard: its index file, the searcher's settings and cache
    ev,          \* a RateLimiter with eviction: its parameters, clock and bucket
    sg,          \* the PrefixSuggester: trie files, its cache, the request threads
    pipe         \* the pipeline route: _pipeline_status, requests and threads

ivVars == <<rows, seq, committed, pc, loc, got>>
jobVars == <<jobs, jobSeq, now, max_retries, wk, adm, tr>>
searchVars == <<files, cache, loads, sr, lastDone, plan>>
\* the state of the components added last
otherVars == <<bm, ev, sg, pipe>>
dataVars == <<raw, processed, trie, lim, otherVars>>
restVars == <<ret, searchVars, dataVars>>
vars == <<ivVars, jobVars, restVars>>

(***************************************************************************)
(* schema.py: idx_index_versions_active, the partial unique index          *)
(* ON index_versions(index_type, shard_id) WHERE status = 'active'.        *)
(***************************************************************************)
NoUniqueIndex(rs) == TRUE

UniqueActiveOk(rs) ==
    \A r1 \in rs, r2 \in rs :
        (r1.status = "active" /\ r2.status = "active"
            /\ r1.index_type = r2.index_type /\ r1.shard_id = r2.shard_id)
        => r1.id = r2.id

RowsOf(rs, it, sh) == {r \in rs : r.index_type = it /\ r.shard_id = sh}

MaxOf(S) == IF S = {} THEN 0 ELSE CHOOSE m \in S : \A x \in S : x <= m

(***************************************************************************)
(* IndexVersionStore read operations.                                      *)
(***************************************************************************)
get_active(rs, it, sh) ==
    LET act == {r \in RowsOf(rs, it, sh) : r.status = "active"}
    IN  IF act = {} THEN NoRow
        ELSE CHOOSE r \in act : \A q \in act : r.id <= q.id

get_latest_version_number(rs, it, sh) ==
    MaxOf({r.version : r \in RowsOf(rs, it, sh)})

get_stale(rs) == {r \in rs : r.status = "stale"}

(***************************************************************************)
(* The SQL statements of IndexVersionStore, as functions on the table.     *)
(***************************************************************************)
SqlInsert(rs, id, it, sh, v, st) ==
    rs \cup {[id |-> id, index_type |-> it, shard_id |-> sh,
              version |-> v, status |-> st]}

\* a wrong WHERE clause: the shard is not compared
SqlMarkStaleAnyShard(rs, it, sh) ==
    {IF r.index_type = it /\ r.status = "active"
        THEN [r EXCEPT !.status = "stale"] ELSE r : r \in rs}

SqlMarkStale(rs, it, sh) ==
    {IF r.index_type = it /\ r.shard_id = sh /\ r.status = "active"
        THEN [r EXCEPT !.status = "stale"] ELSE r : r \in rs}

\* a wrong WHERE clause: the latest version is activated, not the requested one
SqlMarkActiveLatest(rs, it, sh, v) ==
    {IF r.index_type = it /\ r.shard_id = sh
           /\ r.version = MaxOf({q.version : q \in RowsOf(rs, it, sh)})
        THEN [r EXCEPT !.status = "active"] ELSE r : r \in rs}

SqlMarkActive(rs, it, sh, v) ==
    {IF r.index_type = it /\ r.shard_id = sh /\ r.version = v
        THEN [r EXCEPT !.status = "active"] ELSE r : r \in rs}

SqlDelete(rs, id) == {r \in rs : r.id # id}

IdleLoc == [op |-> "none", sh |-> "shard_x", v |-> 0, prev |-> 0, wasBuilding |-> FALSE]

NoGot == [valid |-> FALSE, n |-> 0, swapping |-> FALSE]

\* nothing is in progress in the other part of the model
IvAtRest ==
    /\ rows = {}
    /\ seq = 0
    /\ committed = {}
    /\ pc = [t \in Threads |-> "idle"]
    /\ loc = [t \in Threads |-> IdleLoc]
    /\ got = NoGot

Subreddits == {"a", "b"}
Searchers == 1..NumSearchers

\* the path of the index file of a version: data/indexes/bm25/<shard>/v<n>/index.msgpack
PathOf(sh, v) == <<sh, v>>

NoObj == [v |-> 0, by |-> 0, subs |-> {}, n |-> 0]
IdleSearch == [pc |-> "idle", key |-> PathOf("none", 0), floor |-> 0, obj |-> NoObj]

\* no index file written, nothing cached, no search running, no plan saved
SearchAtRest ==
    /\ files = [k \in {} |-> 0]
    /\ cache = [k \in {} |-> 0]
    /\ loads = [k \in {} |-> 0]
    /\ sr = [s \in Searchers |-> IdleSearch]
    /\ lastDone = [sh \in {} |-> 0]
    /\ plan = [u \in {} |-> 0]

\* Trie(): a root TrieNode (no children, not terminal, score 0.0) and size 0;
\* a node is named by its path, "order" lists the nodes as they were created
NoTrie == [order |-> << << >> >>, terminal |-> {},
           score |-> [p \in {<< >>} |-> 0], size |-> 0]

\* the threads that call is_allowed, and the client keys they pass
Callers == 1..NumCallers
ClientKeys == {"k1", "k2"}

IdleCaller == [pc |-> "idle", key |-> "none", tokens |-> 0]

\* RateLimiter(): no buckets, the lock free, no caller inside is_allowed;
\* calls and allowed count, per key, the calls decided and those allowed
NoLim == [buckets |-> [k \in {} |-> 0],
          holder |-> 0,
          at |-> [c \in Callers |-> IdleCaller],
          calls |-> [k \in ClientKeys |-> 0],
          allowed |-> [k \in ClientKeys |-> 0]]

NoRet == [op |-> "none", arg |-> 0, val |-> 0]

\* no JobStore method has been called directly
StoresAtRest ==
    /\ raw = {}
    /\ processed = [i \in {} |-> 0]

\* no index file, no loaded index
NoIndex == [doc_count |-> 0]

NoBm == [file |-> NoIndex, settings |-> [k1 |-> 12, b |-> 75], loaded |-> NoIndex]

\* no bucket for the client
NoBucket == [present |-> FALSE, tokens |-> 0, last_refill |-> 0, last_seen |-> 0]

\* no RateLimiter constructed yet
NoEv == [made |-> FALSE, rate |-> 0, ttl |-> 0, clock |-> 0,
         bucket |-> NoBucket, kept |-> NoBucket, evicted |-> FALSE]

\* a request thread outside suggest
IdleSuggest == [pc |-> "idle", req |-> "none", label |-> "none",
                first |-> 0, probed |-> FALSE, obj |-> 0]

\* no trie file on disk, nothing cached; first: per label, the trie that was
\* stored in the cache first
NoSg == [files |-> [l \in {"a", "all"} |-> 0],
         builds |-> 0,
         cache |-> [l \in {} |-> 0],
         first |-> [l \in {"a", "all"} |-> 0],
         th |-> [t \in 1..NumSuggesters |-> IdleSuggest]]

\* a request outside run_pipeline; a pipeline thread not started yet
IdleRun == [pc |-> "idle", sub |-> "none"]
NoThread == [pc |-> "none", sub |-> "none"]

\* _pipeline_status = {} (a subreddit without entry has status "none"), no
\* request in the route, no thread started
NoPipe == [status |-> [s \in {"a", "b"} |-> [status |-> "none", stage |-> "none"]],
             req |-> [r \in 1..NumRunRequests |-> IdleRun],
           th |-> [t \in 1..MaxPipelineThreads |-> NoThread],
           started |-> 0]

DataAtRest ==
    /\ StoresAtRest /\ trie = NoTrie /\ lim = NoLim /\ bm = NoBm /\ ev = NoEv /\ sg = NoSg
    /\ pipe = NoPipe

RestAtRest == ret = NoRet /\ SearchAtRest /\ DataAtRest

IdleWorker == [pc |-> "idle", id |-> 0, job_type |-> "none", at |-> 0]
IdleAdmin == [pc |-> "idle", id |-> 0, used |-> 0]

JobsAtRest ==
    /\ jobs = [j \in {} |-> 0]
    /\ jobSeq = 0
    /\ now = 0
    /\ wk = [w \in Workers |-> IdleWorker]
    /\ adm = IdleAdmin
    /\ tr = [j \in {} |-> 0]

IvInit ==
    /\ JobsAtRest
    /\ RestAtRest
    /\ max_retries = DefaultMaxRetries
    /\ rows = {}
    /\ seq = 0
    /\ committed = {}
    /\ pc = [t \in Threads |-> "idle"]
    /\ loc = [t \in Threads |-> IdleLoc]
    /\ got = NoGot

(***************************************************************************)
(* BM25IndexBuilder._build_and_activate (tfidf and vector builders are the *)
(* same): version = get_latest_version_number(...) + 1, then insert a      *)
(* 'building' row, then activate.                                          *)
(***************************************************************************)
\* version = latest + 1; index.save(path of that version) writes the index
\* built from the documents of the subreddits docs
BuildAndActivate(t, sh, docs) ==
    /\ pc[t] = "idle"
    /\ get_latest_version_number(rows, "bm25", sh) + 1 <= MaxVersion
    /\ LET v == get_latest_version_number(rows, "bm25", sh) + 1
           content == [v |-> v, by |-> t, subs |-> docs]
       IN  /\ loc' = [loc EXCEPT ![t] = [IdleLoc EXCEPT !.op = "build", !.sh = sh, !.v = v]]
           /\ files' = [k \in DOMAIN files \cup {PathOf(sh, v)} |->
                           IF k = PathOf(sh, v) THEN content ELSE files[k]]
    /\ pc' = [pc EXCEPT ![t] = "insert"]
    /\ UNCHANGED <<rows, seq, committed, got, jobVars, ret, cache, loads, sr, lastDone, plan, dataVars>>

\* build_shard for a shard and the subreddits that have documents
StartBuild(t, sh) == BuildAndActivate(t, sh, Subreddits)

\* the INSERT statement of IndexVersionStore.insert; a violated unique index
\* raises IntegrityError inside the "with conn:" block
InsertStmt(t, sh, v, st) ==
    /\ seq < MaxRowId
    /\ LET new == SqlInsert(rows, seq + 1, "bm25", sh, v, st)
       IN  IF UniqueActiveOk(new)
           THEN /\ rows' = new
                /\ seq' = seq + 1
                /\ pc' = [pc EXCEPT ![t] = "commit"]
           ELSE /\ pc' = [pc EXCEPT ![t] = "rollback"]
                /\ UNCHANGED <<rows, seq>>
    /\ UNCHANGED <<committed, got, jobVars, restVars>>

\* the builder inserts its row with status 'building'
BuildInsert(t) ==
    /\ pc[t] = "insert"
    /\ InsertStmt(t, loc[t].sh, loc[t].v, "building")
    /\ loc' = loc

\* IndexVersionStore.insert called directly, with the status the caller gives
CallInsert(t, sh, v, st) ==
    /\ pc[t] = "idle"
    /\ InsertStmt(t, sh, v, st)
    /\ loc' = [loc EXCEPT ![t] = [IdleLoc EXCEPT !.op = "insert"]]

\* leaving the "with conn:" block of insert or delete normally
Commit(t) ==
    /\ pc[t] = "commit"
    /\ committed' = rows
    /\ IF loc[t].op = "build"
       THEN /\ pc' = [pc EXCEPT ![t] = "act1"]
            /\ loc' = loc
       ELSE /\ pc' = [pc EXCEPT ![t] = "idle"]
            /\ loc' = [loc EXCEPT ![t] = IdleLoc]
    /\ UNCHANGED <<rows, seq, got, jobVars, restVars>>

\* activate, first UPDATE: the active rows of (type, shard) become stale
MarkStaleStmt(t, sh, v) ==
    /\ LET mine == RowsOf(rows, "bm25", sh)
           target == {r \in mine : r.version = v}
       IN  loc' = [loc EXCEPT ![t] =
                    [op |-> IF pc[t] = "idle" THEN "activate" ELSE loc[t].op,
                     sh |-> sh, v |-> v,
                     prev |-> get_active(rows, "bm25", sh).id,
                     wasBuilding |-> /\ target # {}
                                     /\ \A r \in target : r.status = "building"]]
    /\ rows' = SqlMarkStale(rows, "bm25", sh)
    /\ pc' = [pc EXCEPT ![t] = "act2"]
    /\ UNCHANGED <<seq, committed, got, jobVars, restVars>>

\* the builder activates the version it inserted
ActivateStep1(t) ==
    /\ pc[t] = "act1"
    /\ MarkStaleStmt(t, loc[t].sh, loc[t].v)

\* IndexVersionStore.activate called directly with any version
CallActivate(t, sh, v) ==
    /\ pc[t] = "idle"
    /\ MarkStaleStmt(t, sh, v)

\* activate, second UPDATE: rows of (type, shard, version) become active
ActivateStep2(t) ==
    /\ pc[t] = "act2"
    /\ LET new == SqlMarkActive(rows, "bm25", loc[t].sh, loc[t].v)
       IN  IF UniqueActiveOk(new)
           THEN /\ rows' = new
                /\ pc' = [pc EXCEPT ![t] = "act_commit"]
           ELSE /\ pc' = [pc EXCEPT ![t] = "rollback"]
                /\ rows' = rows
    /\ UNCHANGED <<seq, committed, loc, got, jobVars, restVars>>

\* activate leaves its "with conn:" block normally and returns
ActivateCommit(t) ==
    /\ pc[t] = "act_commit"
    /\ committed' = rows
    /\ pc' = [pc EXCEPT ![t] = "idle"]
    /\ loc' = [loc EXCEPT ![t] = IdleLoc]
    /\ lastDone' = [sh \in DOMAIN lastDone \cup {loc[t].sh} |->
                       IF sh = loc[t].sh THEN loc[t].v ELSE lastDone[sh]]
    /\ UNCHANGED <<rows, seq, got, jobVars, ret, files, cache, loads, sr, plan, dataVars>>

\* a statement raised inside "with conn:": __exit__ rolls the connection back,
\* which discards every uncommitted change made through it, by any thread
Rollback(t) ==
    /\ pc[t] = "rollback"
    /\ rows' = committed
    /\ pc' = [pc EXCEPT ![t] = "idle"]
    /\ loc' = [loc EXCEPT ![t] = IdleLoc]
    /\ UNCHANGED <<seq, committed, got, jobVars, restVars>>

\* IndexVersionStore.delete
Delete(t, id) ==
    /\ pc[t] = "idle"
    /\ \E r \in rows : r.id = id
    /\ rows' = SqlDelete(rows, id)
    /\ loc' = [loc EXCEPT ![t] = [IdleLoc EXCEPT !.op = "delete"]]
    /\ pc' = [pc EXCEPT ![t] = "commit"]
    /\ UNCHANGED <<seq, committed, got, jobVars, restVars>>

\* another thread is inside activate(bm25, sh, _), between its two UPDATEs or
\* before its return, and (bm25, sh) had an active version when it began
Swapping(t, sh) ==
    \E u \in Threads \ {t} :
        /\ pc[u] \in {"act2", "act_commit"}
        /\ loc[u].sh = sh
        /\ loc[u].prev # 0

\* IndexVersionStore.get_active issued by a reader thread (searcher, router)
GetActive(t, sh) ==
    /\ pc[t] = "idle"
    /\ got' = [valid |-> TRUE,
               n |-> IF get_active(rows, "bm25", sh) = NoRow THEN 0 ELSE 1,
               swapping |-> Swapping(t, sh)]
    /\ UNCHANGED <<rows, seq, committed, pc, loc, jobVars, restVars>>

IvStep(t) ==
    \/ \E sh \in ShardIds : StartBuild(t, sh)
    \/ BuildInsert(t)
    \/ \E sh \in ShardIds, v \in 1..MaxVersion, st \in Statuses : CallInsert(t, sh, v, st)
    \/ Commit(t)
    \/ ActivateStep1(t)
    \/ \E sh \in ShardIds, v \in 1..MaxVersion : CallActivate(t, sh, v)
    \/ ActivateStep2(t)
    \/ ActivateCommit(t)
    \/ Rollback(t)
    \/ \E id \in 1..MaxRowId : Delete(t, id)
    \/ \E sh \in ShardIds : GetActive(t, sh)

\* threads issue their statements on the shared connection in any order
IvNext == \E t \in Threads : IvStep(t)

Spec == IvInit /\ [][IvNext]_vars

\* calls that do not overlap: a call runs to its return before the next begins
SeqNext == \E t \in Threads : (\A u \in Threads \ {t} : pc[u] = "idle") /\ IvStep(t)

SeqSpec == IvInit /\ [][SeqNext]_vars

\* builders only: every insert and activate is made by _build_and_activate
BuildNext ==
    \E t \in Threads :
        \/ \E sh \in ShardIds : StartBuild(t, sh)
        \/ BuildInsert(t)
        \/ Commit(t)
        \/ ActivateStep1(t)
        \/ ActivateStep2(t)
        \/ ActivateCommit(t)
        \/ Rollback(t)

BuildSpec == IvInit /\ [][BuildNext]_vars

(***************************************************************************)
(* Part II: the jobs table, JobStore and Worker.                           *)
(***************************************************************************)

\* the handlers registered with every worker of the pool (Scheduler.start):
\* "work" may return or raise, "bad" always raises, "unknown" has no handler
Handlers == {"work", "bad"}

\* datetime.now(timezone.utc).isoformat(): "<date>T<time>+00:00"
PyIso(t) == <<t \div TicksPerDay, 1, t % TicksPerDay>>

\* sqlite datetime('now', '-N seconds'): "<date> <time>"
SqliteDatetime(t) == <<t \div TicksPerDay, 0, t % TicksPerDay>>

\* TEXT comparison (BINARY collation) of two timestamps: date, separator, time
TextLess(x, y) ==
    \/ x[1] < y[1]
    \/ x[1] = y[1] /\ x[2] < y[2]
    \/ x[1] = y[1] /\ x[2] = y[2] /\ x[3] < y[3]

Pending(js) == {j \in DOMAIN js : js[j].status = "pending"}

\* SELECT id FROM jobs WHERE status = 'pending'
\*   ORDER BY priority ASC, created_at ASC LIMIT 1      (0: no row)
SqlSelectNext(js) ==
    IF Pending(js) = {} THEN 0
    ELSE CHOOSE j \in Pending(js) :
            \A k \in Pending(js) :
                \/ js[j].priority < js[k].priority
                \/ js[j].priority = js[k].priority /\ js[j].created_at < js[k].created_at
                \/ js[j].priority = js[k].priority /\ js[j].created_at = js[k].created_at
                       /\ j <= k

\* INSERT INTO jobs (... 'pending' ... retries 0)
SqlEnqueue(js, id, ty, prio, t) ==
    [j \in DOMAIN js \cup {id} |->
        IF j = id
        THEN [job_type |-> ty, status |-> "pending", priority |-> prio,
              created_at |-> t, started_at |-> Null, completed_at |-> Null,
              error |-> FALSE, retries |-> 0]
        ELSE js[j]]

\* the UPDATE of claim_next leaving started_at as it is
SqlClaimNoStart(js, id, t) ==
    [j \in DOMAIN js |->
        IF j = id /\ js[j].status = "pending"
        THEN [js[j] EXCEPT !.status = "running"]
        ELSE js[j]]

\* the UPDATE of claim_next without its "AND status = 'pending'"
SqlClaimUnguarded(js, id, t) ==
    [j \in DOMAIN js |->
        IF j = id THEN [js[j] EXCEPT !.status = "running", !.started_at = t]
        ELSE js[j]]

\* UPDATE jobs SET status = 'running', started_at = ? WHERE id = ? AND status = 'pending'
SqlClaim(js, id, t) ==
    [j \in DOMAIN js |->
        IF j = id /\ js[j].status = "pending"
        THEN [js[j] EXCEPT !.status = "running", !.started_at = t]
        ELSE js[j]]

\* UPDATE jobs SET status = 'completed', completed_at = ? WHERE id = ?
SqlComplete(js, id, t) ==
    [j \in DOMAIN js |->
        IF j = id THEN [js[j] EXCEPT !.status = "completed", !.completed_at = t]
        ELSE js[j]]

\* UPDATE jobs SET status = 'failed', completed_at = ?, error = ?,
\*   retries = retries + 1 WHERE id = ?
SqlFail(js, id, t) ==
    [j \in DOMAIN js |->
        IF j = id
        THEN [js[j] EXCEPT !.status = "failed", !.completed_at = t,
                           !.error = TRUE, !.retries = @ + 1]
        ELSE js[j]]

\* a retry that leaves the status alone
SqlRetryKeepsStatus(js, id) ==
    [j \in DOMAIN js |->
        IF j = id
        THEN [js[j] EXCEPT !.started_at = Null, !.completed_at = Null, !.error = FALSE]
        ELSE js[j]]

\* UPDATE jobs SET status = 'pending', started_at = NULL, completed_at = NULL,
\*   error = NULL WHERE id = ?
SqlRetry(js, id) ==
    [j \in DOMAIN js |->
        IF j = id
        THEN [js[j] EXCEPT !.status = "pending", !.started_at = Null,
                           !.completed_at = Null, !.error = FALSE]
        ELSE js[j]]

\* the rows recover_stale_running resets
StaleRunning(js, t, max_age) ==
    {j \in DOMAIN js :
        /\ js[j].status = "running"
        /\ js[j].started_at # Null
        /\ TextLess(PyIso(js[j].started_at), SqliteDatetime(t - max_age))}

\* UPDATE jobs SET status = 'pending', started_at = NULL
\*   WHERE status = 'running' AND started_at < datetime('now', '-N seconds')
SqlRecoverStale(js, t, max_age) ==
    [j \in DOMAIN js |->
        IF j \in StaleRunning(js, t, max_age)
        THEN [js[j] EXCEPT !.status = "pending", !.started_at = Null]
        ELSE js[j]]

\* a lookup that falls back to some handler for every type
AlwaysHasHandler(ty) == TRUE

\* Worker._tick: handler = self._handlers.get(job.job_type)
HasHandler(ty) == ty \in Handlers

\* retry while retries <= max_retries
ShouldRetryInclusive(retries, limit) == retries <= limit

\* Worker._tick: retry after a failure when updated.retries < max_retries
ShouldRetry(retries, limit) == retries < limit

\* history: the job became pending again, nobody holds it from this round
Released(S) == [j \in DOMAIN tr |-> IF j \in S THEN [tr[j] EXCEPT !.handed = 0] ELSE tr[j]]

JobInit ==
    /\ IvAtRest
    /\ JobsAtRest
    /\ RestAtRest
    /\ max_retries \in 0..MaxRetries

\* JobStore.enqueue
Enqueue(ty) ==
    /\ jobSeq < MaxJobs
    /\ jobs' = SqlEnqueue(jobs, jobSeq + 1, ty, 10, now)
    /\ jobSeq' = jobSeq + 1
    /\ tr' = [j \in DOMAIN tr \cup {jobSeq + 1} |->
                IF j = jobSeq + 1
                THEN [handed |-> 0, execs |-> 0, revived |-> FALSE] ELSE tr[j]]
    /\ UNCHANGED <<now, max_retries, wk, adm, ivVars, restVars>>

\* time passes: the date changes
Tick ==
    /\ now < MaxClock * TicksPerDay
    /\ now' = now + TicksPerDay
    /\ UNCHANGED <<jobs, jobSeq, max_retries, wk, adm, tr, ivVars, restVars>>

\* claim_next: now = datetime.now(...).isoformat(), then the first statement:
\* find the job to claim
ClaimSelect(w) ==
    /\ wk[w].pc = "idle"
    /\ SqlSelectNext(jobs) # 0
    /\ wk' = [wk EXCEPT ![w] = [IdleWorker EXCEPT !.pc = "claim_update",
                                                 !.id = SqlSelectNext(jobs),
                                                 !.at = now]]
    /\ UNCHANGED <<jobs, jobSeq, now, max_retries, adm, tr, ivVars, restVars>>

\* claim_next, second statement: the conditional UPDATE
ClaimUpdate(w) ==
    /\ wk[w].pc = "claim_update"
    /\ jobs' = SqlClaim(jobs, wk[w].id, wk[w].at)
    /\ wk' = [wk EXCEPT ![w].pc = "claim_reread"]
    /\ UNCHANGED <<jobSeq, now, max_retries, adm, tr, ivVars, restVars>>

\* claim_next, third statement: re-read the row; the job is returned when its
\* status is 'running'.  _tick then looks the handler up and starts it.
ClaimReread(w) ==
    /\ wk[w].pc = "claim_reread"
    /\ LET id == wk[w].id
       IN  IF id \in DOMAIN jobs /\ jobs[id].status = "running"
           THEN /\ wk' = [wk EXCEPT ![w] =
                            [pc |-> IF HasHandler(jobs[id].job_type)
                                    THEN "exec" ELSE "nohandler",
                             id |-> id, job_type |-> jobs[id].job_type, at |-> 0]]
                /\ tr' = [tr EXCEPT ![id].handed = @ + 1,
                                    ![id].execs = IF HasHandler(jobs[id].job_type)
                                                  THEN @ + 1 ELSE @]
           ELSE /\ wk' = [wk EXCEPT ![w] = IdleWorker]
                /\ tr' = tr
    /\ UNCHANGED <<jobs, jobSeq, now, max_retries, adm, ivVars, restVars>>

\* _tick: no handler registered for the job type
FailNoHandler(w) ==
    /\ wk[w].pc = "nohandler"
    /\ jobs' = SqlFail(jobs, wk[w].id, now)
    /\ wk' = [wk EXCEPT ![w] = IdleWorker]
    /\ UNCHANGED <<jobSeq, now, max_retries, adm, tr, ivVars, restVars>>

\* _tick: the handler returned; complete(job.id)
HandlerReturns(w) ==
    /\ wk[w].pc = "exec"
    /\ wk[w].job_type = "work"
    /\ jobs' = SqlComplete(jobs, wk[w].id, now)
    /\ wk' = [wk EXCEPT ![w] = IdleWorker]
    /\ UNCHANGED <<jobSeq, now, max_retries, adm, tr, ivVars, restVars>>

\* _tick: the handler raised; fail(job.id, error_msg)
HandlerRaises(w) ==
    /\ wk[w].pc = "exec"
    /\ jobs' = SqlFail(jobs, wk[w].id, now)
    /\ wk' = [wk EXCEPT ![w].pc = "failed"]
    /\ UNCHANGED <<jobSeq, now, max_retries, adm, tr, ivVars, restVars>>

\* _tick: updated = get_by_id(job.id); retry when updated.retries < max_retries
ReadRetries(w) ==
    /\ wk[w].pc = "failed"
    /\ LET id == wk[w].id
       IN  IF id \in DOMAIN jobs /\ ShouldRetry(jobs[id].retries, max_retries)
           THEN wk' = [wk EXCEPT ![w].pc = "retry"]
           ELSE wk' = [wk EXCEPT ![w] = IdleWorker]
    /\ UNCHANGED <<jobs, jobSeq, now, max_retries, adm, tr, ivVars, restVars>>

\* _tick: retry(job.id)
WorkerRetry(w) ==
    /\ wk[w].pc = "retry"
    /\ jobs' = SqlRetry(jobs, wk[w].id)
    /\ tr' = Released({wk[w].id} \cap DOMAIN tr)
    /\ wk' = [wk EXCEPT ![w] = IdleWorker]
    /\ UNCHANGED <<jobSeq, now, max_retries, adm, ivVars, restVars>>

\* JobStore.recover_stale_running (Scheduler.recover_stale, admin endpoint)
Sweep(max_age) ==
    /\ StaleRunning(jobs, now, max_age) # {}
    /\ jobs' = SqlRecoverStale(jobs, now, max_age)
    /\ tr' = Released(StaleRunning(jobs, now, max_age))
    /\ UNCHANGED <<jobSeq, now, max_retries, wk, adm, ivVars, restVars>>

\* admin retry endpoint: job = get_by_id(job_id); only a failed job passes
AdminCheck(id) ==
    /\ adm.pc = "idle"
    /\ id \in DOMAIN jobs
    /\ jobs[id].status = "failed"
    /\ adm.used < MaxAdminRetries
    /\ adm' = [pc |-> "retry", id |-> id, used |-> adm.used + 1]
    /\ UNCHANGED <<jobs, jobSeq, now, max_retries, wk, tr, ivVars, restVars>>

\* admin retry endpoint: job_store.retry(job_id)
AdminRetry ==
    /\ adm.pc = "retry"
    /\ jobs' = SqlRetry(jobs, adm.id)
    /\ tr' = [j \in DOMAIN tr |->
                IF j = adm.id THEN [tr[j] EXCEPT !.handed = 0, !.revived = TRUE]
                ELSE tr[j]]
    /\ adm' = [adm EXCEPT !.pc = "idle", !.id = 0]
    /\ UNCHANGED <<jobSeq, now, max_retries, wk, ivVars, restVars>>

WorkerStep(w) ==
    \/ ClaimSelect(w)
    \/ ClaimUpdate(w)
    \/ ClaimReread(w)
    \/ FailNoHandler(w)
    \/ HandlerReturns(w)
    \/ HandlerRaises(w)
    \/ ReadRetries(w)
    \/ WorkerRetry(w)

\* the worker pool, the maintenance sweep and the admin retry endpoint
JobNext ==
    \/ \E ty \in JobTypes : Enqueue(ty)
    \/ Tick
    \/ \E w \in Workers : WorkerStep(w)
    \/ \E a \in 0..MaxAge : Sweep(a)
    \/ \E id \in 1..MaxJobs : AdminCheck(id)
    \/ AdminRetry

JobSpec == JobInit /\ [][JobNext]_vars

\* the pool alone: jobs are enqueued and the workers run; every worker thread
\* keeps being scheduled and every handler returns or raises
LiveNext ==
    \/ \E ty \in JobTypes : Enqueue(ty)
    \/ \E w \in Workers : WorkerStep(w)

LiveJobSpec ==
    /\ JobInit
    /\ [][LiveNext]_vars
    /\ \A w \in Workers : WF_vars(WorkerStep(w))

\* one worker (run_once after run_once, or a pool of one), with the sweep
OneWorkerNext ==
    \/ \E ty \in JobTypes : Enqueue(ty)
    \/ Tick
    \/ WorkerStep(1)
    \/ \E a \in 0..MaxAge : Sweep(a)

OneWorkerSpec == JobInit /\ [][OneWorkerNext]_vars

(***************************************************************************)
(* Part III.  JobStore called method by method, one call at a time, with   *)
(* any arguments.                                                          *)
(***************************************************************************)
Priorities == {5, 10}
TypeFilters == {"any", "work", "bad"}

PendingOfType(js, ty) ==
    {j \in Pending(js) : ty = "any" \/ js[j].job_type = ty}

\* the oldest pending rows, whatever their priority
OldestPending(js, ty) ==
    {j \in PendingOfType(js, ty) :
        \A k \in PendingOfType(js, ty) : js[j].created_at <= js[k].created_at}

\* the rows that may come first in
\*   SELECT id FROM jobs WHERE status = 'pending' [AND job_type = ?]
\*   ORDER BY priority ASC, created_at ASC LIMIT 1
FirstPending(js, ty) ==
    {j \in PendingOfType(js, ty) :
        \A k \in PendingOfType(js, ty) :
            \/ js[j].priority < js[k].priority
            \/ js[j].priority = js[k].priority /\ js[j].created_at <= js[k].created_at}

\* the sets  SELECT id FROM jobs WHERE status = 'completed'
\*           ORDER BY completed_at DESC LIMIT k   may return
Completed(js) == {j \in DOMAIN js : js[j].status = "completed"}

\* the subquery with ORDER BY completed_at ASC
OldestCompleted(js, k) ==
    {K \in SUBSET Completed(js) :
        /\ Cardinality(K) = (IF k < Cardinality(Completed(js))
                             THEN k ELSE Cardinality(Completed(js)))
        /\ \A i \in K, j \in Completed(js) \ K :
               js[i].completed_at <= js[j].completed_at}

LatestCompleted(js, k) ==
    {K \in SUBSET Completed(js) :
        /\ Cardinality(K) = (IF k < Cardinality(Completed(js))
                             THEN k ELSE Cardinality(Completed(js)))
        /\ \A i \in K, j \in Completed(js) \ K :
               js[i].completed_at >= js[j].completed_at}

\* DELETE FROM jobs WHERE status = 'completed' AND id NOT IN (keep)
SqlCleanup(js, keep) ==
    [j \in {i \in DOMAIN js : js[i].status # "completed" \/ i \in keep} |-> js[j]]

StoreInit ==
    /\ IvAtRest
    /\ JobsAtRest
    /\ RestAtRest
    /\ max_retries = DefaultMaxRetries

StoreEnqueue(ty, prio) ==
    /\ jobSeq < MaxStoreJobs
    /\ jobs' = SqlEnqueue(jobs, jobSeq + 1, ty, prio, now)
    /\ jobSeq' = jobSeq + 1
    /\ ret' = [op |-> "enqueue", arg |-> 0, val |-> jobSeq + 1]
    /\ UNCHANGED <<now, max_retries, wk, adm, tr, ivVars, searchVars, dataVars>>

StoreTick ==
    /\ now < MaxStoreClock
    /\ now' = now + 1
    /\ ret' = NoRet
    /\ UNCHANGED <<jobs, jobSeq, max_retries, wk, adm, tr, ivVars, searchVars, dataVars>>

\* claim_next(job_type): SELECT, UPDATE, re-read; val 0 stands for None
StoreClaimNext(ty) ==
    /\ IF FirstPending(jobs, ty) = {}
       THEN /\ jobs' = jobs
            /\ ret' = [op |-> "claim_next", arg |-> ty, val |-> 0]
       ELSE \E id \in FirstPending(jobs, ty) :
            /\ jobs' = SqlClaim(jobs, id, now)
            /\ ret' = [op |-> "claim_next", arg |-> ty,
                       val |-> IF SqlClaim(jobs, id, now)[id].status = "running"
                               THEN id ELSE 0]
    /\ UNCHANGED <<jobSeq, now, max_retries, wk, adm, tr, ivVars, searchVars, dataVars>>

StoreComplete(id) ==
    /\ jobs' = SqlComplete(jobs, id, now)
    /\ ret' = [op |-> "complete", arg |-> id, val |-> 0]
    /\ UNCHANGED <<jobSeq, now, max_retries, wk, adm, tr, ivVars, searchVars, dataVars>>

StoreFail(id) ==
    /\ id \in DOMAIN jobs => jobs[id].retries < MaxStoreRetries
    /\ jobs' = SqlFail(jobs, id, now)
    /\ ret' = [op |-> "fail", arg |-> id, val |-> 0]
    /\ UNCHANGED <<jobSeq, now, max_retries, wk, adm, tr, ivVars, searchVars, dataVars>>

StoreRetry(id) ==
    /\ jobs' = SqlRetry(jobs, id)
    /\ ret' = [op |-> "retry", arg |-> id, val |-> 1]
    /\ UNCHANGED <<jobSeq, now, max_retries, wk, adm, tr, ivVars, searchVars, dataVars>>

\* recover_stale_running(max_age_seconds): returns cursor.rowcount
StoreRecover(max_age) ==
    /\ jobs' = SqlRecoverStale(jobs, now, max_age)
    /\ ret' = [op |-> "recover_stale_running", arg |-> max_age,
               val |-> Cardinality(StaleRunning(jobs, now, max_age))]
    /\ UNCHANGED <<jobSeq, now, max_retries, wk, adm, tr, ivVars, searchVars, dataVars>>

\* cleanup_completed(keep_last): returns cursor.rowcount
StoreCleanup(k) ==
    /\ \E keep \in LatestCompleted(jobs, k) :
          /\ jobs' = SqlCleanup(jobs, keep)
          /\ ret' = [op |-> "cleanup_completed", arg |-> k,
                     val |-> Cardinality(DOMAIN jobs) - Cardinality(DOMAIN SqlCleanup(jobs, keep))]
    /\ UNCHANGED <<jobSeq, now, max_retries, wk, adm, tr, ivVars, searchVars, dataVars>>

StoreNext ==
    \/ \E ty \in Handlers, prio \in Priorities : StoreEnqueue(ty, prio)
    \/ StoreTick
    \/ \E ty \in TypeFilters : StoreClaimNext(ty)
    \/ \E id \in 1..MaxStoreJobs : StoreComplete(id)
    \/ \E id \in 1..MaxStoreJobs : StoreFail(id)
    \/ \E id \in 1..MaxStoreJobs : StoreRetry(id)
    \/ \E a \in 0..MaxAge : StoreRecover(a)
    \/ \E k \in 0..MaxKeep : StoreCleanup(k)

StoreSpec == StoreInit /\ [][StoreNext]_vars

(***************************************************************************)
(* Part IV.  BM25Searcher: one long-lived instance shared by the request   *)
(* threads, its cache keyed by the resolved path of the active version's   *)
(* index file, next to the builders.                                       *)
(***************************************************************************)
\* _load_active_index: active = get_active("bm25", shard_id); None ends the
\* request without hits; else cache_key is the path of the active row's file
SearchGetActive(s, sh) ==
    /\ sr[s].pc = "idle"
    /\ get_active(rows, "bm25", sh) # NoRow
    /\ sr' = [sr EXCEPT ![s] =
                [IdleSearch EXCEPT
                    !.pc = "check",
                    !.key = PathOf(sh, get_active(rows, "bm25", sh).version),
                    !.floor = IF sh \in DOMAIN lastDone THEN lastDone[sh] ELSE 0]]
    /\ UNCHANGED <<ivVars, jobVars, ret, files, cache, loads, lastDone, plan, dataVars>>

\* if cache_key not in self._cache: ... (a missing file ends the request)
SearchCheck(s) ==
    /\ sr[s].pc = "check"
    /\ sr' = [sr EXCEPT ![s] =
                IF sr[s].key \in DOMAIN cache THEN [@ EXCEPT !.pc = "return"]
                ELSE IF sr[s].key \in DOMAIN files THEN [@ EXCEPT !.pc = "load"]
                ELSE IdleSearch]
    /\ UNCHANGED <<ivVars, jobVars, ret, files, cache, loads, lastDone, plan, dataVars>>

\* BM25InvertedIndex.load(absolute_path): reads the file into a new object
SearchLoad(s) ==
    /\ sr[s].pc = "load"
    /\ LET k == sr[s].key
           n == IF k \in DOMAIN loads THEN loads[k] + 1 ELSE 1
       IN  /\ loads' = [x \in DOMAIN loads \cup {k} |-> IF x = k THEN n ELSE loads[x]]
           /\ sr' = [sr EXCEPT ![s].pc = "store",
                               ![s].obj = [v |-> files[k].v, by |-> files[k].by,
                                           subs |-> files[k].subs, n |-> n]]
    /\ UNCHANGED <<ivVars, jobVars, ret, files, cache, lastDone, plan, dataVars>>

\* self._cache[cache_key] = <the loaded object>
SearchStore(s) ==
    /\ sr[s].pc = "store"
    /\ cache' = [x \in DOMAIN cache \cup {sr[s].key} |->
                    IF x = sr[s].key THEN sr[s].obj ELSE cache[x]]
    /\ sr' = [sr EXCEPT ![s].pc = "return"]
    /\ UNCHANGED <<ivVars, jobVars, ret, files, loads, lastDone, plan, dataVars>>

\* return self._cache[cache_key]; search scores the query against it
SearchReturn(s) ==
    /\ sr[s].pc = "return"
    /\ sr' = [sr EXCEPT ![s].pc = "scored", ![s].obj = cache[sr[s].key]]
    /\ UNCHANGED <<ivVars, jobVars, ret, files, cache, loads, lastDone, plan, dataVars>>

\* search returns its hits
SearchEnd(s) ==
    /\ sr[s].pc = "scored"
    /\ sr' = [sr EXCEPT ![s] = IdleSearch]
    /\ UNCHANGED <<ivVars, jobVars, ret, files, cache, loads, lastDone, plan, dataVars>>

SearchStep(s) ==
    \/ \E sh \in ShardIds : SearchGetActive(s, sh)
    \/ SearchCheck(s)
    \/ SearchLoad(s)
    \/ SearchStore(s)
    \/ SearchReturn(s)
    \/ SearchEnd(s)

\* builders and request threads side by side
SearchNext ==
    \/ BuildNext
    \/ \E s \in Searchers : SearchStep(s)

SearchSpec == IvInit /\ [][SearchNext]_vars

(***************************************************************************)
(* Part V.  Shard plan, ShardRouter and the shards a search scans.         *)
(***************************************************************************)
\* subreddit arguments as callers pass them, and "none" for None
RawNames == {"a", "b", "A"}

\* subreddit.strip().lower()
Normalize(x) == IF x = "A" THEN "a" ELSE x

\* f"shard_{sub}"
LegacyShard(sub) == IF sub = "a" THEN "shard_a" ELSE "shard_b"

\* ShardSettings.grouped_shard_prefix
GroupedShard == "shard_small"

PlanShards == {LegacyShard(u) : u \in Subreddits} \cup {GroupedShard}

\* the plans compute_plan can produce and save_plan has stored, for the
\* subreddits seen so far: own shard or the grouped shard
Plans ==
    UNION {{p \in [S -> PlanShards] : \A u \in S : p[u] \in {LegacyShard(u), GroupedShard}} :
               S \in SUBSET Subreddits}

\* ShardManager.get_shard_id
get_shard_id(pl, subreddit) ==
    IF Normalize(subreddit) \in DOMAIN pl THEN pl[Normalize(subreddit)]
    ELSE LegacyShard(Normalize(subreddit))

\* ShardPlan.subreddits_in
subreddits_in(pl, sh) == {u \in DOMAIN pl : pl[u] = sh}

\* the shards with an active version, in the order of get_all_active
\* (ORDER BY shard_id): shard_a, shard_b, shard_small
ShardOrder == <<"shard_a", "shard_b", "shard_small">>

ActiveShards(rs, it) == {sh \in PlanShards : get_active(rs, it, sh) # NoRow}

AllActive(rs, it) ==
    SelectSeq(ShardOrder, LAMBDA sh : sh \in ActiveShards(rs, it))

\* resolve that trusts the plan without looking for an active version
ResolveUnchecked(rs, pl, subreddit, it) ==
    IF subreddit # "none" THEN <<get_shard_id(pl, subreddit)>> ELSE AllActive(rs, it)

\* ShardRouter.resolve
resolve(rs, pl, subreddit, it) ==
    IF subreddit # "none"
    THEN LET shard_id == get_shard_id(pl, subreddit)
             legacy == LegacyShard(Normalize(subreddit))
         IN  IF get_active(rs, it, shard_id) # NoRow THEN <<shard_id>>
             ELSE IF legacy # shard_id /\ get_active(rs, it, legacy) # NoRow
                  THEN <<legacy>>
                  ELSE << >>
    ELSE AllActive(rs, it)

\* BM25Searcher.search: the shards it asks _load_active_index for
Bm25Shards(rs, subreddit) ==
    IF subreddit # "none" THEN <<LegacyShard(Normalize(subreddit))>>
    ELSE AllActive(rs, "bm25")

\* ... and those for which _load_active_index finds an active index to score
Bm25Scanned(rs, subreddit) ==
    SelectSeq(Bm25Shards(rs, subreddit), LAMBDA sh : get_active(rs, "bm25", sh) # NoRow)

RouteInit ==
    /\ IvAtRest
    /\ JobsAtRest
    /\ max_retries = DefaultMaxRetries
    /\ ret = NoRet
    /\ files = [k \in {} |-> 0]
    /\ cache = [k \in {} |-> 0]
    /\ loads = [k \in {} |-> 0]
    /\ sr = [s \in Searchers |-> IdleSearch]
    /\ lastDone = [sh \in {} |-> 0]
    /\ plan = [u \in {} |-> GroupedShard]
    /\ DataAtRest

\* build_subreddit(subreddit): the documents of that subreddit, for the
\* shard the plan assigns it to
BuildSubreddit(t, subreddit) ==
    BuildAndActivate(t, get_shard_id(plan, subreddit), {Normalize(subreddit)})

\* build_shard(shard_id, plan.subreddits_in(shard_id)), as build_all calls it
BuildShard(t, sh) ==
    /\ subreddits_in(plan, sh) # {}
    /\ BuildAndActivate(t, sh, subreddits_in(plan, sh))

\* ShardManager.save_plan after compute_plan: INSERT OR REPLACE per subreddit
RouteSavePlan(p) ==
    /\ plan' = [u \in DOMAIN plan \cup DOMAIN p |->
                    IF u \in DOMAIN p THEN p[u] ELSE plan[u]]
    /\ plan' # plan
    /\ UNCHANGED <<ivVars, jobVars, ret, files, cache, loads, sr, lastDone, dataVars>>

\* a caller of ShardRouter.resolve; the call's view of the table and of the plan is kept
RouteResolve(subreddit, it) ==
    /\ ret' = [op |-> "resolve", arg |-> <<subreddit, it>>,
               val |-> [out |-> resolve(rows, plan, subreddit, it),
                        active |-> ActiveShards(rows, it), plan |-> plan]]
    /\ UNCHANGED <<ivVars, jobVars, searchVars, dataVars>>

\* a bm25 search: the shards it scores, next to what the router resolves
RouteSearch(subreddit) ==
    /\ ret' = [op |-> "search", arg |-> subreddit,
               val |-> [out |-> Bm25Scanned(rows, subreddit),
                        routed |-> resolve(rows, plan, subreddit, "bm25")]]
    /\ UNCHANGED <<ivVars, jobVars, searchVars, dataVars>>

\* the builds of one builder at a time (overlapping builds are BuildSpec's)
Builder == CHOOSE t \in Threads : TRUE

RouteNext ==
    \/ \E p \in Plans : RouteSavePlan(p)
    \/ \E u \in RawNames : BuildSubreddit(Builder, u)
    \/ \E sh \in PlanShards : BuildShard(Builder, sh)
    \/ BuildInsert(Builder)
    \/ Commit(Builder)
    \/ ActivateStep1(Builder)
    \/ ActivateStep2(Builder)
    \/ ActivateCommit(Builder)
    \/ \E u \in RawNames \cup {"none"}, it \in {"bm25", "tfidf"} : RouteResolve(u, it)
    \/ \E u \in RawNames \cup {"none"} : RouteSearch(u)

RouteSpec == RouteInit /\ [][RouteNext]_vars

(***************************************************************************)
(* Part VI.  ShardManager.compute_plan called with any table of counts.    *)
(***************************************************************************)
\* subreddit_doc_counts: a dict, as the sequence of its items in iteration
\* order; the keys of a dict are distinct
CountItems == [sub : RawNames, count : 0..MaxDocs]

CountInputs ==
    {q \in UNION {[1..n -> CountItems] : n \in 0..Cardinality(RawNames)} :
        \A i, j \in 1..Len(q) : i # j => q[i].sub # q[j].sub}

\* the loop body with "count > threshold"
ShardForCountStrict(sub, count) ==
    IF count > MinDocsForOwnShard THEN LegacyShard(Normalize(sub)) ELSE GroupedShard

\* the shard compute_plan's loop body gives one item
ShardForCount(sub, count) ==
    IF count >= MinDocsForOwnShard THEN LegacyShard(Normalize(sub)) ELSE GroupedShard

\* assignments[sub] = ... : a later item replaces an earlier one of the same key
RECURSIVE AssignAll(_, _)
AssignAll(q, acc) ==
    IF q = << >> THEN acc
    ELSE LET key == Normalize(Head(q).sub)
             shard == ShardForCount(Head(q).sub, Head(q).count)
         IN  AssignAll(Tail(q),
                       [u \in DOMAIN acc \cup {key} |->
                           IF u = key THEN shard ELSE acc[u]])

\* ShardManager.compute_plan
compute_plan(q) == AssignAll(q, [u \in {} |-> GroupedShard])

\* the counts build_all passes: count(sub) for each of get_subreddits();
\* count lower-cases its argument, so names that differ in case only carry
\* the same count
FromBuildAll(q) ==
    \A i, j \in 1..Len(q) :
        Normalize(q[i].sub) = Normalize(q[j].sub) => q[i].count = q[j].count

PlanCompute(q) ==
    /\ ret' = [op |-> "compute_plan", arg |-> q, val |-> compute_plan(q)]
    /\ UNCHANGED <<ivVars, jobVars, searchVars, dataVars>>

\* save_plan(plan) of the plan just computed, as build_all does
PlanSave ==
    /\ ret.op = "compute_plan"
    /\ plan' = [u \in DOMAIN plan \cup DOMAIN ret.val |->
                    IF u \in DOMAIN ret.val THEN ret.val[u] ELSE plan[u]]
    /\ UNCHANGED <<ivVars, jobVars, ret, files, cache, loads, sr, lastDone, dataVars>>

PlanNext ==
    \/ \E q \in CountInputs : PlanCompute(q)
    \/ PlanSave

PlanSpec == RouteInit /\ [][PlanNext]_vars

(***************************************************************************)
(* Part VII.  RawPostStore and ProcessedPostStore, called method by        *)
(* method, and the builds that read their documents.                       *)
(***************************************************************************)
PostIds == 1..MaxPosts
PipelineVersions == 1..MaxPipeline

RawIds(rw) == {r.id : r \in rw}

\* INSERT OR IGNORE INTO raw_posts: id is the primary key
SqlRawInsert(rw, id, sub) ==
    IF id \in RawIds(rw) THEN rw ELSE rw \cup {[id |-> id, subreddit |-> sub]}

\* INSERT OR REPLACE INTO processed_posts: id is the primary key
SqlProcUpsert(pr, id, v) ==
    [i \in DOMAIN pr \cup {id} |-> IF i = id THEN v ELSE pr[i]]

\* DELETE FROM processed_posts WHERE id IN (...)
SqlProcDelete(pr, ids) == [i \in DOMAIN pr \ ids |-> pr[i]]

\* the WHERE clause with an inner JOIN in place of the LEFT JOIN
StaleOnly(pr, id, v) == id \in DOMAIN pr /\ pr[id] < v

\* LEFT JOIN processed_posts p ON r.id = p.id
\* WHERE p.id IS NULL OR p.pipeline_version < ?
Unprocessed(pr, id, v) == id \notin DOMAIN pr \/ pr[id] < v

\* the rows of a SELECT over raw_posts as a list, one item per row
RECURSIVE RowList(_)
RowList(ids) ==
    IF ids = {} THEN << >>
    ELSE LET m == CHOOSE i \in ids : \A j \in ids : i <= j
         IN  <<m>> \o RowList(ids \ {m})

\* RawPostStore.get_unprocessed_ids
get_unprocessed_ids(rw, pr, v) ==
    RowList({r.id : r \in {x \in rw : Unprocessed(pr, x.id, v)}})

\* ProcessedPostStore.get_all_for_subreddit: ids of the processed posts
\* JOINed with the raw posts of the subreddit
get_all_for_subreddit(rw, pr, sub) ==
    {r.id : r \in {x \in rw : x.subreddit = sub /\ x.id \in DOMAIN pr}}

RawInsert(id, sub) ==
    /\ raw' = SqlRawInsert(raw, id, sub)
    /\ ret' = [op |-> "raw_insert", arg |-> id, val |-> id \notin RawIds(raw)]
    /\ UNCHANGED <<ivVars, jobVars, searchVars, processed, trie, lim, otherVars>>

\* upsert; the foreign key to raw_posts(id) is enforced (foreign_keys=ON), so
\* a row for an unknown id raises IntegrityError and is rolled back
ProcUpsert(id, v) ==
    /\ processed' = IF id \in RawIds(raw) THEN SqlProcUpsert(processed, id, v)
                    ELSE processed
    /\ ret' = [op |-> "upsert", arg |-> id, val |-> id \in RawIds(raw)]
    /\ UNCHANGED <<ivVars, jobVars, searchVars, raw, trie, lim, otherVars>>

\* delete_by_ids; delete_all is the call with every id
ProcDelete(ids) ==
    /\ processed' = SqlProcDelete(processed, ids)
    /\ ret' = [op |-> "delete_by_ids", arg |-> ids,
               val |-> Cardinality(ids \cap DOMAIN processed)]
    /\ UNCHANGED <<ivVars, jobVars, searchVars, raw, trie, lim, otherVars>>

GetUnprocessed(v) ==
    /\ ret' = [op |-> "get_unprocessed_ids", arg |-> v,
               val |-> get_unprocessed_ids(raw, processed, v)]
    /\ UNCHANGED <<ivVars, jobVars, searchVars, dataVars>>

PostNext ==
    \/ \E id \in PostIds, sub \in Subreddits : RawInsert(id, sub)
    \/ \E id \in PostIds, v \in PipelineVersions : ProcUpsert(id, v)
    \/ \E ids \in SUBSET PostIds : ProcDelete(ids)
    \/ \E v \in 1..(MaxPipeline + 1) : GetUnprocessed(v)

PostSpec == RouteInit /\ [][PostNext]_vars

\* "if not documents" that never takes the early return
NeverEmpty(ids) == FALSE

\* build_subreddit / build_shard: "if not documents"
NoDocuments(ids) == ids = {}

\* build_shard(shard_id, subreddits), and build_subreddit as the call with
\* the subreddit's shard and the one subreddit: collect the documents, return
\* the zero summary if there are none, else build and activate
BuildFromStore(t, sh, subs) ==
    LET ids == UNION {get_all_for_subreddit(raw, processed, Normalize(u)) : u \in subs}
        with == {Normalize(u) : u \in {x \in subs :
                     get_all_for_subreddit(raw, processed, Normalize(x)) # {}}}
    IN  IF NoDocuments(ids)
        THEN /\ pc[t] = "idle"
             /\ ret' = [op |-> "build", arg |-> <<sh, subs>>,
                        val |-> [version |-> 0, doc_count |-> 0]]
             /\ UNCHANGED <<ivVars, jobVars, searchVars, dataVars>>
        ELSE BuildAndActivate(t, sh, with)

DocNext ==
    \/ \E id \in PostIds, sub \in Subreddits : RawInsert(id, sub)
    \/ \E id \in PostIds : ProcUpsert(id, 1)
    \/ \E ids \in SUBSET PostIds : ProcDelete(ids)
    \/ \E u \in RawNames : BuildFromStore(Builder, get_shard_id(plan, u), {u})
    \/ \E S \in SUBSET Subreddits : BuildFromStore(Builder, GroupedShard, S)
    \/ BuildInsert(Builder)
    \/ Commit(Builder)
    \/ ActivateStep1(Builder)
    \/ ActivateStep2(Builder)
    \/ ActivateCommit(Builder)

DocSpec == RouteInit /\ [][DocNext]_vars

(***************************************************************************)
(* Part VIII.  One whole BM25Searcher.search over its shards, with index   *)
(* files that can be absent or unreadable.                                 *)
(***************************************************************************)
\* a file whose bytes msgpack.unpackb cannot read
Corrupt == [v |-> 0, by |-> 0, subs |-> {}]

\* the object BM25InvertedIndex.load makes of a file
Loaded(content) ==
    [v |-> content.v, by |-> content.by, subs |-> content.subs, n |-> 1]

\* _load_active_index without its "if not absolute_path.exists()"
FileNeverMissing(k) == FALSE

\* not absolute_path.exists()
FileMissing(k) == k \notin DOMAIN files

\* file_path.read_bytes() and msgpack.unpackb: what load gets to see; both
\* raise, the first for a file that is not there
ReadFile(k) == IF k \in DOMAIN files THEN files[k] ELSE Corrupt

\* the loop of search over the shards q with the cache c: per shard
\* _load_active_index, then score; an exception of load ends the loop
RECURSIVE ScanShards(_, _, _)
ScanShards(q, c, hits) ==
    IF q = << >> THEN [cache |-> c, hits |-> hits, raised |-> FALSE]
    ELSE LET sh == Head(q)
             active == get_active(rows, "bm25", sh)
             k == PathOf(sh, active.version)
         IN  IF active = NoRow THEN ScanShards(Tail(q), c, hits)
             ELSE IF k \in DOMAIN c
                  THEN ScanShards(Tail(q), c, hits \cup {<<sh, c[k].v>>})
             ELSE IF FileMissing(k) THEN ScanShards(Tail(q), c, hits)
             ELSE IF ReadFile(k) = Corrupt
                  THEN [cache |-> c, hits |-> hits, raised |-> TRUE]
             ELSE ScanShards(Tail(q),
                             [x \in DOMAIN c \cup {k} |->
                                 IF x = k THEN Loaded(ReadFile(k)) ELSE c[x]],
                             hits \cup {<<sh, ReadFile(k).v>>})

\* search(query, subreddit) from its first line to its return or its exception
ScanSearch(subreddit) ==
    LET out == ScanShards(Bm25Shards(rows, subreddit), cache, {})
    IN  /\ cache' = out.cache
        /\ ret' = [op |-> "scan", arg |-> subreddit,
                   val |-> [hits |-> out.hits, raised |-> out.raised,
                            call |-> IF ret.op = "scan" THEN 1 - ret.val.call ELSE 0]]
        /\ UNCHANGED <<ivVars, jobVars, files, loads, sr, lastDone, plan, dataVars>>

\* an index file disappears from the disk
FileRemove(k) ==
    /\ k \in DOMAIN files
    /\ files' = [x \in DOMAIN files \ {k} |-> files[x]]
    /\ UNCHANGED <<ivVars, jobVars, ret, cache, loads, sr, lastDone, plan, dataVars>>

\* an index file is damaged (a torn write_bytes, a disk fault)
FileCorrupt(k) ==
    /\ k \in DOMAIN files
    /\ files[k] # Corrupt
    /\ files' = [files EXCEPT ![k] = Corrupt]
    /\ UNCHANGED <<ivVars, jobVars, ret, cache, loads, sr, lastDone, plan, dataVars>>

\* the file of a catalogued version is put back
FileRestore(sh, v) ==
    /\ \E r \in RowsOf(rows, "bm25", sh) : r.version = v
    /\ PathOf(sh, v) \notin DOMAIN files
    /\ files' = [x \in DOMAIN files \cup {PathOf(sh, v)} |->
                    IF x = PathOf(sh, v)
                    THEN [v |-> v, by |-> Builder, subs |-> Subreddits]
                    ELSE files[x]]
    /\ UNCHANGED <<ivVars, jobVars, ret, cache, loads, sr, lastDone, plan, dataVars>>

ScanNext ==
    \/ \E sh \in PlanShards : BuildAndActivate(Builder, sh, Subreddits)
    \/ BuildInsert(Builder)
    \/ Commit(Builder)
    \/ ActivateStep1(Builder)
    \/ ActivateStep2(Builder)
    \/ ActivateCommit(Builder)
    \/ \E sh \in PlanShards, v \in 1..MaxVersion : FileRemove(PathOf(sh, v))
    \/ \E sh \in PlanShards, v \in 1..MaxVersion : FileCorrupt(PathOf(sh, v))
    \/ \E sh \in PlanShards, v \in 1..MaxVersion : FileRestore(sh, v)
    \/ \E u \in RawNames \cup {"none"} : ScanSearch(u)

ScanSpec == RouteInit /\ [][ScanNext]_vars

(***************************************************************************)
(* Part IX.  The autocomplete Trie: insert and search.                     *)
(***************************************************************************)
Chars == {"a", "b", "A"}

\* str.lower() of one character, and of a term (a sequence of characters)
LowerChar(ch) == IF ch = "A" THEN "a" ELSE ch

Lower(term) == [i \in 1..Len(term) |-> LowerChar(term[i])]

Terms == UNION {[1..n -> Chars] : n \in 0..MaxTermLen}

Scores == (0 - NegScores)..MaxScore

Max2(x, y) == IF x >= y THEN x ELSE y

Min2(x, y) == IF x <= y THEN x ELSE y

NodesOf(tri) == {tri.order[i] : i \in 1..Len(tri.order)}

\* the walk of insert from the root: a TrieNode() for every missing prefix,
\* shortest first
RECURSIVE AddPath(_, _, _)
AddPath(order, p, n) ==
    IF n > Len(p) THEN order
    ELSE IF \E i \in 1..Len(order) : order[i] = SubSeq(p, 1, n)
         THEN AddPath(order, p, n + 1)
         ELSE AddPath(Append(order, SubSeq(p, 1, n)), p, n + 1)

\* Trie.insert
insert(tri, term, score) ==
    LET p == Lower(term)
        order == AddPath(tri.order, p, 1)
        old == IF p \in NodesOf(tri) THEN tri.score[p] ELSE 0
    IN  [order |-> order,
         terminal |-> tri.terminal \cup {p},
         score |-> [q \in {order[i] : i \in 1..Len(order)} |->
                       IF q = p THEN Max2(old, score)
                       ELSE IF q \in NodesOf(tri) THEN tri.score[q] ELSE 0],
         size |-> IF p \in tri.terminal THEN tri.size ELSE tri.size + 1]

\* the order of Python strings on terms, and of the heap's (score, term) tuples
CharRank(ch) == IF ch = "a" THEN 1 ELSE 2

RECURSIVE TermLess(_, _)
TermLess(x, y) ==
    IF x = << >> THEN y # << >>
    ELSE IF y = << >> THEN FALSE
    ELSE IF Head(x) # Head(y) THEN CharRank(Head(x)) < CharRank(Head(y))
    ELSE TermLess(Tail(x), Tail(y))

TupleLess(x, y) == x[1] < y[1] \/ (x[1] = y[1] /\ TermLess(x[2], y[2]))

\* heap[0]
HeapMin(items) == CHOOSE x \in items : \A y \in items \ {x} : TupleLess(x, y)

\* _collect at one node: heappush while the heap has fewer than k items, else
\* heapreplace if the node's score beats heap[0][0]; heap[0] of an empty heap
\* raises IndexError
Visit(tri, p, heap, k) ==
    IF heap.raised \/ p \notin tri.terminal THEN heap
    ELSE IF Cardinality(heap.items) < k
         THEN [heap EXCEPT !.items = @ \cup {<<tri.score[p], p>>}]
    ELSE IF heap.items = {} THEN [heap EXCEPT !.raised = TRUE]
    ELSE IF tri.score[p] > HeapMin(heap.items)[1]
         THEN [heap EXCEPT !.items = (@ \ {HeapMin(@)}) \cup {<<tri.score[p], p>>}]
    ELSE heap

\* node.children.values(): the children in the order they were created
Children(tri, p) ==
    SelectSeq(tri.order, LAMBDA q : Len(q) = Len(p) + 1 /\ SubSeq(q, 1, Len(p)) = p)

\* Trie._collect: the node, then its children, depth first
RECURSIVE Collect(_, _, _, _)
Collect(tri, todo, heap, k) ==
    IF todo = << >> THEN heap
    ELSE Collect(tri, Children(tri, Head(todo)) \o Tail(todo),
                 Visit(tri, Head(todo), heap, k), k)

\* heap.sort(key=score, reverse=True)
RECURSIVE SortDesc(_)
SortDesc(items) ==
    IF items = {} THEN << >>
    ELSE LET m == CHOOSE x \in items : \A y \in items \ {x} : TupleLess(y, x)
         IN  <<m>> \o SortDesc(items \ {m})

\* Trie.search: the suggestions as (score, term) pairs, or the exception
search(tri, prefix, k) ==
    IF Lower(prefix) \notin NodesOf(tri) THEN [out |-> << >>, raised |-> FALSE]
    ELSE LET heap == Collect(tri, <<Lower(prefix)>>, [items |-> {}, raised |-> FALSE], k)
         IN  IF heap.raised THEN [out |-> << >>, raised |-> TRUE]
             ELSE [out |-> SortDesc(heap.items), raised |-> FALSE]

TrieInsert(term, score) ==
    /\ insert(trie, term, score).size <= MaxTrieSize
    /\ trie' = insert(trie, term, score)
    /\ ret' = [op |-> "insert", arg |-> <<term, score>>,
               val |-> [fresh |-> Lower(term) \notin trie.terminal,
                        before |-> trie.size,
                        call |-> IF ret.op = "insert" THEN 1 - ret.val.call ELSE 0]]
    /\ UNCHANGED <<ivVars, jobVars, searchVars, raw, processed, lim, otherVars>>

TrieSearch(prefix, k) ==
    /\ ret' = [op |-> "trie_search", arg |-> <<prefix, k>>,
               val |-> search(trie, prefix, k)]
    /\ UNCHANGED <<ivVars, jobVars, searchVars, dataVars>>

TrieNext ==
    \/ \E term \in Terms, score \in Scores : TrieInsert(term, score)
    \/ \E prefix \in Terms, k \in 0..MaxTopK : TrieSearch(prefix, k)

TrieSpec == RouteInit /\ [][TrieNext]_vars

(***************************************************************************)
(* Part X.  Cursor pagination: encode_cursor, decode_cursor and            *)
(* Page.from_results, walked page by page as the search route does.        *)
(***************************************************************************)
\* next_cursor = None
NoCursor == <<"none">>

\* base64.urlsafe_b64encode(json.dumps({"o": offset})): the text is kept as
\* its parts, the encoding and the JSON object with its one key
encode_cursor(offset) == <<"b64", <<"o", offset>>>>

\* strings a client can send that encode_cursor did not make
ForgedCursors == {<<"garbage">>, <<"b64", <<"x", 1>>>>, <<"b64", <<"o", 0 - 1>>>>}

\* decode_cursor: 0 for what does not decode (and .get("o", 0) for a missing
\* key), else max(0, int(o))
decode_cursor(cursor) ==
    IF Len(cursor) = 2 /\ cursor[1] = "b64"
    THEN IF cursor[2][1] = "o" THEN Max2(0, cursor[2][2]) ELSE 0
    ELSE 0

\* all_items: the hits of the query, a fixed list of n distinct items
Hits(n) == [i \in 1..n |-> i]

\* has_more with "<=" in place of "<"
HasMoreInclusive(offset, page_size, n) == offset + page_size <= n

\* has_more = (offset + page_size) < len(all_items)
HasMore(offset, page_size, n) == offset + page_size < n

\* Page.from_results
from_results(all_items, offset, page_size) ==
    [items |-> SubSeq(all_items, offset + 1, Min2(offset + page_size, Len(all_items))),
     next_cursor |-> IF HasMore(offset, page_size, Len(all_items))
                     THEN encode_cursor(offset + page_size) ELSE NoCursor,
     total_hits |-> Len(all_items),
     page_size |-> page_size]

\* the first request of a walk: no cursor, offset 0
PageFirst(n, page_size) ==
    LET page == from_results(Hits(n), 0, page_size)
    IN  /\ ret' = [op |-> "page", arg |-> <<n, page_size>>,
                   val |-> [page |-> page, seen |-> page.items, pages |-> 1]]
        /\ UNCHANGED <<ivVars, jobVars, searchVars, dataVars>>

\* the next request: offset = decode_cursor(cursor) of the page before
PageFollow ==
    /\ ret.op = "page"
    /\ ret.val.page.next_cursor # NoCursor
    /\ LET page == from_results(Hits(ret.arg[1]),
                                decode_cursor(ret.val.page.next_cursor), ret.arg[2])
       IN  ret' = [ret EXCEPT !.val = [page |-> page,
                                       seen |-> ret.val.seen \o page.items,
                                       pages |-> ret.val.pages + 1]]
    /\ UNCHANGED <<ivVars, jobVars, searchVars, dataVars>>

\* a request with a cursor the server never issued: the walk starts over
PageForged(cursor) ==
    /\ ret.op = "page"
    /\ LET page == from_results(Hits(ret.arg[1]), decode_cursor(cursor), ret.arg[2])
       IN  ret' = [ret EXCEPT !.val = [page |-> page, seen |-> page.items, pages |-> 1]]
    /\ UNCHANGED <<ivVars, jobVars, searchVars, dataVars>>

PageNext ==
    \/ \E n \in 0..MaxHits, p \in 1..MaxPageSize : PageFirst(n, p)
    \/ PageFollow
    \/ \E c \in ForgedCursors : PageForged(c)

PageSpec == RouteInit /\ [][PageNext]_vars

(***************************************************************************)
(* Part XI.  RateLimiter.is_allowed called by concurrent request threads.  *)
(***************************************************************************)
\* refill_rate of the limiter under test
RefillRate == 0

\* time.monotonic() - last_refill, in ticks
Elapsed == {0, 1}

\* is_allowed without "with self._lock"
LockIgnored(l) == TRUE

\* threading.Lock: free to take
LockFree(l) == l.holder = 0

\* with self._lock: (enter)
LimAcquire(c, k) ==
    /\ lim.at[c].pc = "idle"
    /\ LockFree(lim)
    /\ lim.calls[k] + Cardinality({d \in Callers : lim.at[d].key = k /\ lim.at[d].pc \in {"get", "refill", "test"}}) < MaxCalls
    /\ lim' = [lim EXCEPT !.holder = c,
                          !.at[c] = [IdleCaller EXCEPT !.pc = "get", !.key = k]]
    /\ UNCHANGED <<ivVars, jobVars, ret, searchVars, raw, processed, trie, otherVars>>

\* bucket = self._buckets.get(client_key); a new _Bucket starts at capacity
LimGet(c) ==
    /\ lim.at[c].pc = "get"
    /\ LET k == lim.at[c].key
       IN  lim' = [lim EXCEPT
                     !.buckets = IF k \in DOMAIN @ THEN @
                                 ELSE [x \in DOMAIN @ \cup {k} |->
                                          IF x = k THEN LimCapacity ELSE @[x]],
                     !.at[c].pc = "refill"]
    /\ UNCHANGED <<ivVars, jobVars, ret, searchVars, raw, processed, trie, otherVars>>

\* try_consume: self.tokens = min(capacity, tokens + elapsed * refill_rate)
LimRefill(c, elapsed) ==
    /\ lim.at[c].pc = "refill"
    /\ LET k == lim.at[c].key
       IN  lim' = [lim EXCEPT
                     !.buckets[k] = Min2(LimCapacity, @ + elapsed * RefillRate),
                     !.at[c].pc = "test"]
    /\ UNCHANGED <<ivVars, jobVars, ret, searchVars, raw, processed, trie, otherVars>>

\* try_consume: if self.tokens >= 1.0 (the call is decided here; the value
\* read is kept for the "-= 1.0" that follows)
LimTest(c) ==
    /\ lim.at[c].pc = "test"
    /\ LET k == lim.at[c].key
           ok == lim.buckets[k] >= 1
       IN  lim' = [lim EXCEPT
                     !.at[c].pc = IF ok THEN "consume" ELSE "release",
                     !.at[c].tokens = lim.buckets[k],
                     !.calls[k] = @ + 1,
                     !.allowed[k] = IF ok THEN @ + 1 ELSE @]
    /\ UNCHANGED <<ivVars, jobVars, ret, searchVars, raw, processed, trie, otherVars>>

\* try_consume: self.tokens -= 1.0; return True
LimConsume(c) ==
    /\ lim.at[c].pc = "consume"
    /\ lim' = [lim EXCEPT !.buckets[lim.at[c].key] = lim.at[c].tokens - 1,
                          !.at[c].pc = "release"]
    /\ UNCHANGED <<ivVars, jobVars, ret, searchVars, raw, processed, trie, otherVars>>

\* with self._lock: (exit), and is_allowed returns
LimRelease(c) ==
    /\ lim.at[c].pc = "release"
    /\ lim' = [lim EXCEPT !.holder = IF @ = c THEN 0 ELSE @,
                          !.at[c] = IdleCaller]
    /\ UNCHANGED <<ivVars, jobVars, ret, searchVars, raw, processed, trie, otherVars>>

LimNext ==
    \E c \in Callers :
        \/ \E k \in ClientKeys : LimAcquire(c, k)
        \/ LimGet(c)
        \/ \E e \in Elapsed : LimRefill(c, e)
        \/ LimTest(c)
        \/ LimConsume(c)
        \/ LimRelease(c)

LimSpec == RouteInit /\ [][LimNext]_vars

(***************************************************************************)
(* Part XII.  Hybrid score fusion: linear_combination.  Floats are kept as *)
(* exact fractions: normalised scores in units of 1/NormUnit, weights in   *)
(* units of 1/WeightUnit, returned scores in millionths (round(x, 6)).     *)
(***************************************************************************)

FuseDocs == {"d1", "d2"}
RawScores == 0..MaxRaw

\* bm25_weight, tfidf_weight, vector_weight: any floats; here in twentieths,
\* so that the defaults 0.7, 0.15, 0.15 are 14, 3, 3
WeightUnit == 20
Weights == {3, 14}

RECURSIVE Factorial(_)
Factorial(n) == IF n <= 1 THEN 1 ELSE n * Factorial(n - 1)

\* every span hi - lo of raw scores divides NormUnit
NormUnit == Factorial(MaxRaw)

\* 1.0 as a fused score before rounding
FuseOne == NormUnit * WeightUnit

\* round(x, 6): the result in millionths, x in units of 1/FuseOne
Micro == 1000000
round6(x) == (2 * x * Micro + FuseOne) \div (2 * FuseOne)

\* a hit list: up to MaxFuseLen tuples (doc_id, raw_score, shard_id)
HitLists(shard) ==
    UNION {[1..k -> FuseDocs \X RawScores \X {shard}] : k \in 0..MaxFuseLen}

\* {d: s for d, s, _ in hits}: a later tuple of a doc replaces an earlier one
ScoreDict(hits) ==
    LET ids == {hits[i][1] : i \in 1..Len(hits)}
        last(d) == CHOOSE i \in 1..Len(hits) :
                       /\ hits[i][1] = d
                       /\ \A j \in (i + 1)..Len(hits) : hits[j][1] # d
    IN  [d \in ids |-> hits[last(d)][2]]

\* shard_map.setdefault(d, sid): the first tuple of a doc gives its shard
FirstShard(hits, d) ==
    hits[CHOOSE i \in 1..Len(hits) :
             hits[i][1] = d /\ \A j \in 1..(i - 1) : hits[j][1] # d][3]

\* _min_max_normalise without the division by the span
NormaliseUnscaled(scores) ==
    IF DOMAIN scores = {} THEN scores
    ELSE LET lo == CHOOSE x \in RawScores :
                       (\E d \in DOMAIN scores : scores[d] = x)
                       /\ \A d \in DOMAIN scores : scores[d] >= x
         IN  [d \in DOMAIN scores |-> (scores[d] - lo + 1) * NormUnit]

\* _min_max_normalise, values in units of 1/NormUnit
min_max_normalise(scores) ==
    IF DOMAIN scores = {} THEN scores
    ELSE LET lo == CHOOSE x \in RawScores :
                       (\E d \in DOMAIN scores : scores[d] = x)
                       /\ \A d \in DOMAIN scores : scores[d] >= x
             hi == CHOOSE x \in RawScores :
                       (\E d \in DOMAIN scores : scores[d] = x)
                       /\ \A d \in DOMAIN scores : scores[d] <= x
             span == hi - lo
         IN  IF span = 0 THEN [d \in DOMAIN scores |-> NormUnit]
             ELSE [d \in DOMAIN scores |-> ((scores[d] - lo) * NormUnit) \div span]

\* norm.get(doc_id, 0.0)
NormGet(norm, d) == IF d \in DOMAIN norm THEN norm[d] ELSE 0

\* the list merged of linear_combination before it is sorted, as a set: one
\* ScoredHit per doc of all_ids
Merged(bm25_hits, tfidf_hits, vector_hits, bm25_weight, tfidf_weight, vector_weight) ==
    LET bm25_norm == min_max_normalise(ScoreDict(bm25_hits))
        tfidf_norm == min_max_normalise(ScoreDict(tfidf_hits))
        vector_norm == min_max_normalise(ScoreDict(vector_hits))
        all_hits == bm25_hits \o tfidf_hits \o vector_hits
        all_ids == DOMAIN bm25_norm \cup DOMAIN tfidf_norm \cup DOMAIN vector_norm
    IN  {[id |-> d,
          score |-> round6(NormGet(bm25_norm, d) * bm25_weight
                           + NormGet(tfidf_norm, d) * tfidf_weight
                           + NormGet(vector_norm, d) * vector_weight),
          shard_id |-> FirstShard(all_hits, d),
          bm25_score |-> round6(NormGet(bm25_norm, d) * WeightUnit),
          tfidf_score |-> round6(NormGet(tfidf_norm, d) * WeightUnit),
          vector_score |-> round6(NormGet(vector_norm, d) * WeightUnit)] : d \in all_ids}

\* merged.sort(key = score, reverse = True): all_ids is a set of strings, its
\* iteration order is any, and the sort keeps that order among equal scores
SortedByScore(hits) ==
    {s \in [1..Cardinality(hits) -> hits] :
        /\ \A i, j \in DOMAIN s : i < j => s[i] # s[j] /\ s[i].score >= s[j].score}

\* linear_combination: the lists it can return
linear_combination(bm25_hits, tfidf_hits, vector_hits, bm25_weight, tfidf_weight, vector_weight, top_k) ==
    {SubSeq(s, 1, Min2(top_k, Len(s))) :
        s \in SortedByScore(Merged(bm25_hits, tfidf_hits, vector_hits,
                                   bm25_weight, tfidf_weight, vector_weight))}

\* one call of linear_combination
Fuse(bm25_hits, tfidf_hits, vector_hits, w, top_k) ==
    /\ \E out \in linear_combination(bm25_hits, tfidf_hits, vector_hits,
                                     w[1], w[2], w[3], top_k) :
           ret' = [op |-> "linear_combination",
                   arg |-> [weights |-> w, top_k |-> top_k,
                            lists |-> <<Len(bm25_hits), Len(tfidf_hits), Len(vector_hits)>>],
                   val |-> out]
    /\ UNCHANGED <<ivVars, jobVars, searchVars, dataVars>>

\* each behaviour makes one call, with any inputs
FuseNext ==
    /\ ret = NoRet
    /\ \E b \in HitLists("s1"), t \in HitLists("s2"), v \in HitLists("s3"),
          w \in Weights \X Weights \X Weights, k \in 1..Cardinality(FuseDocs) :
           Fuse(b, t, v, w, k)

FuseSpec == RouteInit /\ [][FuseNext]_vars

(***************************************************************************)
(* Part XIII.  BM25InvertedIndex (build, save, load, score) and the index  *)
(* a BM25Searcher scores with.  k1 is kept in tenths, b in hundredths and  *)
(* scores in thousandths.                                                  *)
(***************************************************************************)

BmTerms == {"t1", "t2"}
BmK1s == {12, 20}
BmBs == {0, 75}

\* BM25Settings: k1 = 1.2, b = 0.75
DefaultBm == [k1 |-> 12, b |-> 75]

\* a document: its token list, kept as the count of each term
DocShapes == [BmTerms -> 0..MaxTf]

\* documents: doc_id -> tokens, in the order of the dict; never empty (the
\* builders return before building when there are no documents)
Corpora == UNION {[1..n -> DocShapes] : n \in 1..MaxBmDocs}

\* query_tokens
Queries == UNION {[1..n -> BmTerms] : n \in 1..MaxQueryLen}

RECURSIVE SumTf(_, _)
SumTf(doc, ts) ==
    IF ts = {} THEN 0
    ELSE LET t == CHOOSE x \in ts : TRUE IN doc[t] + SumTf(doc, ts \ {t})

RECURSIVE SumLen(_, _)
SumLen(lens, n) == IF n = 0 THEN 0 ELSE lens[n] + SumLen(lens, n - 1)

\* BM25InvertedIndex(k1, b).build(documents); avg_doc_len = total_len /
\* doc_count is kept as the pair of the two
build(k1, b, documents) ==
    LET ids == DOMAIN documents
        lens == [d \in ids |-> SumTf(documents[d], BmTerms)]
        used == {t \in BmTerms : \E d \in ids : documents[d][t] > 0}
    IN  [k1 |-> k1, b |-> b,
         postings |-> [t \in used |->
                          [d \in {x \in ids : documents[x][t] > 0} |-> documents[d][t]]],
         doc_lengths |-> lens,
         doc_count |-> Cardinality(ids),
         avg_doc_len |-> <<SumLen(lens, Len(documents)), Cardinality(ids)>>]

\* save: the payload written to the file
save(index) == index

\* BM25InvertedIndex.load(file_path, k1, b)
load(payload, k1, b) ==
    [payload EXCEPT !.k1 = IF k1 = Null THEN payload.k1 ELSE k1,
                    !.b = IF b = Null THEN payload.b ELSE b]

\* math.log(num / den) in thousandths, for the ratios
\* 1 + (N - df + 0.5) / (df + 0.5) = (2N + 2) / (2 df + 1) of small N and df
LnMilli(num, den) ==
    CASE num = 4 /\ den = 3 -> 288
      [] num = 6 /\ den = 3 -> 693
      [] num = 6 /\ den = 5 -> 182
      [] num = 8 /\ den = 3 -> 981
      [] num = 8 /\ den = 5 -> 470
      [] num = 8 /\ den = 7 -> 134
      [] num = 10 /\ den = 3 -> 1204
      [] num = 10 /\ den = 5 -> 693
      [] num = 10 /\ den = 7 -> 357
      [] num = 10 /\ den = 9 -> 105

\* idf * tf_weight of one term for one document of its posting list
Contribution(index, term, doc_id) ==
    LET posting == index.postings[term]
        df == Cardinality(DOMAIN posting)
        idf == LnMilli(2 * index.doc_count + 2, 2 * df + 1)
        tf == posting[doc_id]
        dl == index.doc_lengths[doc_id]
        total == index.avg_doc_len[1]
        n == index.avg_doc_len[2]
        \* norm = norm_num / norm_den
        norm_num == IF total > 0 THEN (100 - index.b) * total + index.b * dl * n ELSE 1
        norm_den == IF total > 0 THEN 100 * total ELSE 1
    IN  (idf * tf * (index.k1 + 10) * norm_den)
            \div (10 * tf * norm_den + index.k1 * norm_num)

\* the loop over posting.items() of one term: docs in the order of the dict
RECURSIVE AddPosting(_, _, _, _)
AddPosting(index, term, d, scores) ==
    IF d > index.doc_count THEN scores
    ELSE IF d \notin DOMAIN index.postings[term]
    THEN AddPosting(index, term, d + 1, scores)
    ELSE LET c == Contribution(index, term, d)
             at == {i \in 1..Len(scores) : scores[i][1] = d}
             next == IF at = {} THEN Append(scores, <<d, c>>)
                     ELSE LET i == CHOOSE x \in at : TRUE
                          IN  [scores EXCEPT ![i] = <<d, scores[i][2] + c>>]
         IN  AddPosting(index, term, d + 1, next)

\* the loop "for term in query_tokens": scores in insertion order
RECURSIVE ScoreTokens(_, _, _, _)
ScoreTokens(index, query_tokens, i, scores) ==
    IF i > Len(query_tokens) THEN scores
    ELSE IF query_tokens[i] \notin DOMAIN index.postings
    THEN ScoreTokens(index, query_tokens, i + 1, scores)
    ELSE ScoreTokens(index, query_tokens, i + 1,
                     AddPosting(index, query_tokens[i], 1, scores))

\* sorted(items, key = score, reverse = True): stable
RECURSIVE StableDesc(_)
StableDesc(s) ==
    IF Len(s) <= 1 THEN s
    ELSE LET head == StableDesc(SubSeq(s, 1, Len(s) - 1))
             x == s[Len(s)]
             k == Cardinality({i \in 1..Len(head) : head[i][2] >= x[2]})
         IN  SubSeq(head, 1, k) \o <<x>> \o SubSeq(head, k + 1, Len(head))

\* the loop of score over the distinct terms of the query only
RECURSIVE ScoreDistinct(_, _, _, _)
ScoreDistinct(index, query_tokens, i, scores) ==
    IF i > Len(query_tokens) THEN scores
    ELSE IF query_tokens[i] \notin DOMAIN index.postings
            \/ \E j \in 1..(i - 1) : query_tokens[j] = query_tokens[i]
    THEN ScoreDistinct(index, query_tokens, i + 1, scores)
    ELSE ScoreDistinct(index, query_tokens, i + 1,
                       AddPosting(index, query_tokens[i], 1, scores))

\* BM25InvertedIndex.score
score(index, query_tokens, top_k) ==
    IF Len(query_tokens) = 0 \/ index.doc_count = 0 THEN << >>
    ELSE LET ranked == StableDesc(ScoreTokens(index, query_tokens, 1, << >>))
         IN  SubSeq(ranked, 1, Min2(Max2(0, top_k), Len(ranked)))

\* BM25IndexBuilder._build_and_activate: build with the builder's settings
\* and save; the shard is built once in a behaviour
BmBuild(documents, k1, b) ==
    /\ bm.file = NoIndex
    /\ bm' = [bm EXCEPT !.file = save(build(k1, b, documents))]
    /\ ret' = [op |-> "bm25_build", arg |-> <<k1, b>>, val |-> 0]
    /\ UNCHANGED <<ivVars, jobVars, searchVars, raw, processed, trie, lim, ev, sg, pipe>>

\* a BM25Searcher constructed with other bm25_settings: its cache is empty
BmSearcher(k1, b) ==
    /\ bm.settings # [k1 |-> k1, b |-> b]
    /\ bm' = [bm EXCEPT !.settings = [k1 |-> k1, b |-> b], !.loaded = NoIndex]
    /\ ret' = [op |-> "bm25_searcher", arg |-> <<k1, b>>, val |-> 0]
    /\ UNCHANGED <<ivVars, jobVars, searchVars, raw, processed, trie, lim, ev, sg, pipe>>

\* BM25Searcher.search on the shard, from the query tokens on:
\* _load_active_index (load on a cache miss), then index.score
BmSearch(query_tokens, top_k) ==
    /\ bm.file # NoIndex
    /\ LET index == IF bm.loaded = NoIndex
                    THEN load(bm.file, bm.settings.k1, bm.settings.b)
                    ELSE bm.loaded
       IN  /\ bm' = [bm EXCEPT !.loaded = index]
           /\ ret' = [op |-> "bm25_score", arg |-> <<query_tokens, top_k>>,
                      val |-> score(index, query_tokens, top_k)]
    /\ UNCHANGED <<ivVars, jobVars, searchVars, raw, processed, trie, lim, ev, sg, pipe>>

BmNext ==
    \/ \E docs \in Corpora, k1 \in BmK1s, b \in BmBs : BmBuild(docs, k1, b)
    \/ \E k1 \in BmK1s, b \in BmBs : BmSearcher(k1, b)
    \/ \E q \in Queries, k \in 1..MaxBmDocs : BmSearch(q, k)

BmSpec == RouteInit /\ [][BmNext]_vars

(***************************************************************************)
(* Part XIV.  RateLimiter with evict_stale.  is_allowed and evict_stale    *)
(* each run under self._lock, so each call is one step.  Tokens are kept   *)
(* in halves; next to the bucket of the client the state carries the       *)
(* bucket the client would have if no bucket were ever evicted.            *)
(***************************************************************************)

\* one token, in the unit tokens are counted in
TokenUnit == 2

\* refill_rate in half tokens per tick, eviction_ttl in ticks
EvRates == {0, 1, TokenUnit * EvCapacity}
EvTtls == 0..MaxTtl

\* _Bucket(tokens = capacity) created at time t
NewBucket(t) == [present |-> TRUE, tokens |-> TokenUnit * EvCapacity,
                 last_refill |-> t, last_seen |-> t]

\* _Bucket.try_consume at time t: the refill and the time stamps
Refilled(b, rate, t) ==
    [b EXCEPT !.tokens = Min2(TokenUnit * EvCapacity, b.tokens + (t - b.last_refill) * rate),
              !.last_refill = t, !.last_seen = t]

\* _Bucket.try_consume at time t: the bucket it leaves
try_consume(b, rate, t) ==
    LET r == Refilled(b, rate, t)
    IN  IF r.tokens >= TokenUnit THEN [r EXCEPT !.tokens = r.tokens - TokenUnit] ELSE r

\* RateLimiter(capacity, refill_rate, eviction_ttl)
EvNew(rate, ttl) ==
    /\ ~ev.made
    /\ ev' = [ev EXCEPT !.made = TRUE, !.rate = rate, !.ttl = ttl]
    /\ UNCHANGED <<ivVars, jobVars, ret, searchVars, raw, processed, trie, lim, bm, sg, pipe>>

\* time.monotonic() moves on
EvTick ==
    /\ ev.made
    /\ ev.clock < MaxEvClock
    /\ ev' = [ev EXCEPT !.clock = ev.clock + 1]
    /\ UNCHANGED <<ivVars, jobVars, ret, searchVars, raw, processed, trie, lim, bm, sg, pipe>>

\* RateLimiter.is_allowed(client_key)
EvIsAllowed ==
    /\ ev.made
    /\ LET bucket == IF ev.bucket.present THEN ev.bucket ELSE NewBucket(ev.clock)
           kept == IF ev.kept.present THEN ev.kept ELSE NewBucket(ev.clock)
           avail == Refilled(bucket, ev.rate, ev.clock).tokens
       IN  /\ ev' = [ev EXCEPT !.bucket = try_consume(bucket, ev.rate, ev.clock),
                               !.kept = try_consume(kept, ev.rate, ev.clock),
                               !.evicted = FALSE]
           /\ ret' = [op |-> "is_allowed", arg |-> ev.clock,
                      val |-> [allowed |-> avail >= TokenUnit,
                               avail |-> avail,
                               kept |-> Refilled(kept, ev.rate, ev.clock).tokens,
                               recreated |-> ev.evicted]]
    /\ UNCHANGED <<ivVars, jobVars, searchVars, raw, processed, trie, lim, bm, sg, pipe>>

\* RateLimiter.evict_stale()
EvEvictStale ==
    /\ ev.made
    /\ LET stale == ev.bucket.present /\ (ev.clock - ev.bucket.last_seen) > ev.ttl
       IN  /\ ev' = IF stale
                    THEN [ev EXCEPT !.bucket = [ev.bucket EXCEPT !.present = FALSE],
                                    !.evicted = TRUE]
                    ELSE ev
           /\ ret' = [op |-> "evict_stale", arg |-> ev.clock,
                      val |-> IF stale THEN 1 ELSE 0]
    /\ UNCHANGED <<ivVars, jobVars, searchVars, raw, processed, trie, lim, bm, sg, pipe>>

EvNext ==
    \/ \E rate \in EvRates, ttl \in EvTtls : EvNew(rate, ttl)
    \/ EvTick
    \/ EvIsAllowed
    \/ EvEvictStale

EvSpec == RouteInit /\ [][EvNext]_vars

(***************************************************************************)
(* Part XV.  PrefixSuggester: one instance (app.state.suggester) shared by *)
(* the request threads, the trie files it loads, and the builds and        *)
(* deletions of those files.  A file's content is the number of the build  *)
(* that wrote it.                                                          *)
(***************************************************************************)

SgLabels == {"a", "all"}
SgThreads == 1..NumSuggesters

\* AutocompleteBuilder.build: trie.save writes <label>.msgpack
SgBuild(label) ==
    /\ sg.builds < MaxTrieBuilds
    /\ sg' = [sg EXCEPT !.builds = sg.builds + 1, !.files[label] = sg.builds + 1]
    /\ UNCHANGED <<ivVars, jobVars, ret, searchVars, raw, processed, trie, lim, bm, ev, pipe>>

\* the file of a label is removed from disk
SgDelete(label) ==
    /\ sg.files[label] # 0
    /\ sg' = [sg EXCEPT !.files[label] = 0]
    /\ UNCHANGED <<ivVars, jobVars, ret, searchVars, raw, processed, trie, lim, bm, ev, pipe>>

\* suggest(prefix, subreddit): label = the subreddit, or "all"
SgSuggest(t, label) ==
    /\ sg.th[t].pc = "idle"
    /\ sg' = [sg EXCEPT !.th[t] = [pc |-> "check", req |-> label, label |-> label,
                                   first |-> sg.first[label], probed |-> FALSE, obj |-> 0]]
    /\ UNCHANGED <<ivVars, jobVars, ret, searchVars, raw, processed, trie, lim, bm, ev, pipe>>

\* _load_trie: if label in self._cache: return it; if not path.exists():
\* return None, and suggest then tries "all" or returns []
SgCheck(t) ==
    /\ sg.th[t].pc = "check"
    /\ LET me == sg.th[t]
       IN  sg' = [sg EXCEPT !.th[t] =
                    IF me.label \in DOMAIN sg.cache
                    THEN [me EXCEPT !.pc = "answer", !.obj = sg.cache[me.label]]
                    ELSE IF sg.files[me.label] # 0
                    THEN [me EXCEPT !.pc = "load",
                                    !.probed = me.probed \/ me.label = me.req]
                    ELSE IF me.label # "all"
                    THEN [me EXCEPT !.label = "all", !.probed = TRUE]
                    ELSE [me EXCEPT !.pc = "answer", !.obj = 0,
                                    !.probed = me.probed \/ me.label = me.req]]
    /\ UNCHANGED <<ivVars, jobVars, ret, searchVars, raw, processed, trie, lim, bm, ev, pipe>>

\* trie = Trie.load(path); open raises when the file has gone since the test
SgLoad(t) ==
    /\ sg.th[t].pc = "load"
    /\ LET me == sg.th[t]
       IN  IF sg.files[me.label] = 0
           THEN /\ sg' = [sg EXCEPT !.th[t] = IdleSuggest]
                /\ ret' = [op |-> "suggest", arg |-> me.req,
                           val |-> [raised |-> TRUE, served |-> "none", trie |-> 0,
                                    first |-> me.first, probed |-> me.probed]]
           ELSE /\ sg' = [sg EXCEPT !.th[t] = [me EXCEPT !.pc = "store",
                                                         !.obj = sg.files[me.label]]]
                /\ ret' = ret
    /\ UNCHANGED <<ivVars, jobVars, searchVars, raw, processed, trie, lim, bm, ev, pipe>>

\* self._cache[label] = trie
SgStore(t) ==
    /\ sg.th[t].pc = "store"
    /\ LET me == sg.th[t]
       IN  sg' = [sg EXCEPT !.cache = [l \in DOMAIN sg.cache \cup {me.label} |->
                                          IF l = me.label THEN me.obj ELSE sg.cache[l]],
                            !.first[me.label] = IF @ = 0 THEN me.obj ELSE @,
                            !.th[t] = [me EXCEPT !.pc = "answer"]]
    /\ UNCHANGED <<ivVars, jobVars, ret, searchVars, raw, processed, trie, lim, bm, ev, pipe>>

\* return trie.search(prefix, top_k), or [] without a trie
SgAnswer(t) ==
    /\ sg.th[t].pc = "answer"
    /\ LET me == sg.th[t]
       IN  /\ sg' = [sg EXCEPT !.th[t] = IdleSuggest]
           /\ ret' = [op |-> "suggest", arg |-> me.req,
                      val |-> [raised |-> FALSE,
                               served |-> IF me.obj = 0 THEN "none" ELSE me.label,
                               trie |-> me.obj,
                               first |-> me.first, probed |-> me.probed]]
    /\ UNCHANGED <<ivVars, jobVars, searchVars, raw, processed, trie, lim, bm, ev, pipe>>

SgStep(t) ==
    \/ \E label \in SgLabels : SgSuggest(t, label)
    \/ SgCheck(t)
    \/ SgLoad(t)
    \/ SgStore(t)
    \/ SgAnswer(t)

\* request threads of the API, with builds and deletions of the files
SgNext ==
    \/ \E label \in SgLabels : SgBuild(label)
    \/ \E label \in SgLabels : SgDelete(label)
    \/ \E t \in SgThreads : SgStep(t)

SgSpec == RouteInit /\ [][SgNext]_vars

\* one suggest call at a time
SgOneNext ==
    \/ \E label \in SgLabels : SgBuild(label)
    \/ \E label \in SgLabels : SgDelete(label)
    \/ SgStep(1)

SgOneSpec == RouteInit /\ [][SgOneNext]_vars

(***************************************************************************)
(* Part XVI.  POST /pipeline/run: run_pipeline called by concurrent        *)
(* request threads, and the _run_pipeline threads it starts.  A step is    *)
(* one section under _pipeline_lock, or one stage of work between two.     *)
(***************************************************************************)

RunRequests == 1..NumRunRequests
PipelineThreads == 1..MaxPipelineThreads
Stages == <<"crawl", "preprocess", "index", "autocomplete">>
StageNames == {Stages[i] : i \in 1..Len(Stages)}
NoStatus == [status |-> "none", stage |-> "none"]

\* the stage after st, "done" after the last one
NextStage(st) ==
    LET i == CHOOSE k \in 1..Len(Stages) : Stages[k] = st
    IN  IF i = Len(Stages) THEN "done" ELSE Stages[i + 1]

\* the threads of a subreddit that are inside the stages of _run_pipeline
RunningThreads(sub) ==
    {t \in PipelineThreads : pipe.th[t].sub = sub /\ pipe.th[t].pc \in StageNames}

\* run_pipeline, first section under the lock: current = _pipeline_status
\* .get(sub); if current and current.get("status") == "running": return
\* "already running"; otherwise go on to start a thread
RunCheck(r, name) ==
    /\ pipe.req[r].pc = "idle"
    /\ LET sub == Normalize(name)
       IN  IF pipe.status[sub].status = "running"
           THEN /\ ret' = [op |-> "run_pipeline", arg |-> sub,
                           val |-> [started |-> FALSE, status |-> pipe.status[sub]]]
                /\ pipe' = pipe
           ELSE /\ pipe' = [pipe EXCEPT !.req[r] = [pc |-> "start", sub |-> sub]]
                /\ ret' = ret
    /\ UNCHANGED <<ivVars, jobVars, searchVars, raw, processed, trie, lim, bm, ev, sg>>

\* t = threading.Thread(target=_run_pipeline, ...); t.start()
RunStart(r) ==
    /\ pipe.req[r].pc = "start"
    /\ pipe.started < MaxPipelineThreads
    /\ pipe' = [pipe EXCEPT !.started = @ + 1,
                            !.th[pipe.started + 1] = [pc |-> "born",
                                                      sub |-> pipe.req[r].sub],
                            !.req[r].pc = "return"]
    /\ UNCHANGED <<ivVars, jobVars, ret, searchVars, raw, processed, trie, lim, bm, ev, sg>>

\* second section under the lock: return "Pipeline started", with
\* _pipeline_status.get(sub, {})
RunReturn(r) ==
    /\ pipe.req[r].pc = "return"
    /\ ret' = [op |-> "run_pipeline", arg |-> pipe.req[r].sub,
               val |-> [started |-> TRUE, status |-> pipe.status[pipe.req[r].sub]]]
    /\ pipe' = [pipe EXCEPT !.req[r] = IdleRun]
    /\ UNCHANGED <<ivVars, jobVars, searchVars, raw, processed, trie, lim, bm, ev, sg>>

\* _run_pipeline, stage 1 header: _pipeline_status[sub] = {"status":
\* "running", "stage": "crawl", ...}
ThreadBegin(t) ==
    /\ pipe.th[t].pc = "born"
    /\ pipe' = [pipe EXCEPT !.status[pipe.th[t].sub] =
                                [status |-> "running", stage |-> "crawl"],
                            !.th[t].pc = "crawl"]
    /\ UNCHANGED <<ivVars, jobVars, ret, searchVars, raw, processed, trie, lim, bm, ev, sg>>

\* a stage ends and the next header is written: stage = the next one; after
\* the autocomplete stage status = "completed", stage = "done"
ThreadStage(t) ==
    /\ pipe.th[t].pc \in StageNames
    /\ LET st == NextStage(pipe.th[t].pc)
           sub == pipe.th[t].sub
       IN  pipe' = [pipe EXCEPT !.status[sub] =
                                    IF st = "done"
                                    THEN [status |-> "completed", stage |-> "done"]
                                    ELSE [@ EXCEPT !.stage = st],
                                !.th[t].pc = st]
    /\ UNCHANGED <<ivVars, jobVars, ret, searchVars, raw, processed, trie, lim, bm, ev, sg>>

\* a stage raises (the autocomplete stage catches its own exceptions):
\* except Exception: _pipeline_status[sub]["status"] = "failed"
ThreadFail(t) ==
    /\ pipe.th[t].pc \in StageNames \ {"autocomplete"}
    /\ pipe' = [pipe EXCEPT !.status[pipe.th[t].sub].status = "failed",
                            !.th[t].pc = "done"]
    /\ UNCHANGED <<ivVars, jobVars, ret, searchVars, raw, processed, trie, lim, bm, ev, sg>>

RunNext ==
    \/ \E r \in RunRequests, name \in RawNames : RunCheck(r, name)
    \/ \E r \in RunRequests : RunStart(r)
    \/ \E r \in RunRequests : RunReturn(r)
    \/ \E t \in PipelineThreads : ThreadBegin(t)
    \/ \E t \in PipelineThreads : ThreadStage(t)
    \/ \E t \in PipelineThreads : ThreadFail(t)

RunSpec == RouteInit /\ [][RunNext]_vars

\* one request at a time, each arriving after the thread of the one before
\* has written its first status
RunOneNext ==
    \/ /\ \A t \in PipelineThreads : pipe.th[t].pc # "born"
       /\ \E name \in RawNames : RunCheck(1, name)
    \/ RunStart(1)
    \/ RunReturn(1)
    \/ \E t \in PipelineThreads : ThreadBegin(t)
    \/ \E t \in PipelineThreads : ThreadStage(t)
    \/ \E t \in PipelineThreads : ThreadFail(t)

RunOneSpec == RouteInit /\ [][RunOneNext]_vars

(***************************************************************************)
(* Part XVII.  IndexVersionStore.activate called on any index_versions     *)
(* table, with rows of several index types and shards and with all the     *)
(* columns the two UPDATE statements could touch.                          *)
(***************************************************************************)

ActTypes == {"bm25", "tfidf"}
ActShards == {"shard_x", "shard_y"}
ActShapes == [index_type : ActTypes, shard_id : ActShards,
              version : 1..MaxActVersion, status : Statuses]

\* the row with id i: doc_count and file_path are columns of every row
FullRow(i, shape) ==
    [id |-> i, index_type |-> shape.index_type, shard_id |-> shape.shard_id,
     version |-> shape.version, status |-> shape.status,
     doc_count |-> 10 * i,
     file_path |-> <<shape.index_type, shape.shard_id, shape.version, i>>]

\* the tables the unique index on active rows admits
ActTables ==
    {tbl \in {{FullRow(i, f[i]) : i \in DOMAIN f} :
                 f \in UNION {[1..n -> ActShapes] : n \in 0..MaxActRows}} :
        UniqueActiveOk(tbl)}

\* activate: both UPDATEs inside "with self._conn:"; if the second one
\* violates the unique index the block rolls back and the exception leaves
activate(rs, it, sh, v) ==
    LET stale == SqlMarkStale(rs, it, sh)
        new == SqlMarkActive(stale, it, sh, v)
    IN  IF UniqueActiveOk(new) THEN new ELSE rs

\* one call of activate on a table, which ret keeps as it was before
ActivateOn(tbl, it, sh, v) ==
    /\ rows' = activate(tbl, it, sh, v)
    /\ committed' = rows'
    /\ ret' = [op |-> "activate", arg |-> <<it, sh, v>>, val |-> tbl]
    /\ UNCHANGED <<seq, pc, loc, got, jobVars, searchVars, dataVars>>

ActNext ==
    /\ ret = NoRet
    /\ \E tbl \in ActTables, it \in ActTypes, sh \in ActShards, v \in 1..MaxActVersion :
          ActivateOn(tbl, it, sh, v)

ActSpec == RouteInit /\ [][ActNext]_vars

ActiveRows(rs, it, sh) == {r \in RowsOf(rs, it, sh) : r.status = "active"}

(***************************************************************************)
(* C1. In every reachable state, whatever the interleaving of insert,      *)
(* activate and delete calls, at most one index_versions row per           *)
(* (index_type, shard_id) has status 'active' (in the connection's view    *)
(* and in the committed database).                                         *)
(***************************************************************************)
C1_SingleActive ==
    \A it \in IndexTypes, sh \in ShardIds :
        /\ Cardinality(ActiveRows(rows, it, sh)) <= 1
        /\ Cardinality(ActiveRows(committed, it, sh)) <= 1

\* a statement that would have made a second row active was rejected
C1_Witness ==
    /\ \E t \in Threads : pc[t] = "rollback"
    /\ \E sh \in ShardIds : Cardinality(ActiveRows(rows, "bm25", sh)) = 1
    /\ Cardinality(rows) >= 2

(***************************************************************************)
(* C2. A get_active call made while an activate call on the same           *)
(* (index_type, shard_id) is in progress, where that pair had an active    *)
(* version when the activate began, finds an active row.                   *)
(***************************************************************************)
C2_ReaderFindsActive ==
    (got.valid /\ got.swapping) => got.n = 1

\* worker w is inside a tick for job j, after claim_next returned it
Holding(w, j) ==
    wk[w].id = j /\ wk[w].pc \in {"nohandler", "exec", "failed", "retry"}

\* job j is failed and nobody is working on it
Settled(j) ==
    /\ jobs[j].status = "failed"
    /\ \A w \in Workers : ~Holding(w, j)
    /\ ~(adm.pc = "retry" /\ adm.id = j)

Exhausted(j) == jobs[j].retries >= max_retries \/ ~HasHandler(jobs[j].job_type)

Terminal(j) ==
    \/ jobs[j].status = "completed"
    \/ jobs[j].status = "failed" /\ jobs[j].retries >= max_retries

AtLeastOne(n) == IF n < 1 THEN 1 ELSE n

(***************************************************************************)
(* C3. A pending job is returned by at most one claim_next call until it   *)
(* is put back to pending by retry or recover_stale_running.               *)
(***************************************************************************)
C3_ClaimedOnce ==
    \A j \in DOMAIN tr : tr[j].handed <= 1

(***************************************************************************)
(* C4. No job's handler is executed by two workers at the same time, also  *)
(* when a recover_stale_running sweep runs while a worker is executing it  *)
(* (stated here for the jobs that claim_next handed out only once).        *)
(***************************************************************************)
C4_NoConcurrentRun ==
    \A j \in DOMAIN jobs :
        tr[j].handed <= 1 =>
            Cardinality({w \in Workers : wk[w].pc = "exec" /\ wk[w].id = j}) <= 1

(***************************************************************************)
(* C5. With the workers running and handlers that return or raise, every   *)
(* job that has a handler eventually is completed, or failed with its      *)
(* retries exhausted, and stays so.                                        *)
(***************************************************************************)
C5_EveryJobSettles ==
    \A j \in 1..MaxJobs :
        <>[](j \in DOMAIN jobs => (HasHandler(jobs[j].job_type) => Terminal(j)))

\* the queue has drained: one job completed, one failed after its retries
C5_Witness ==
    /\ max_retries = 2
    /\ \A w \in Workers : wk[w].pc = "idle"
    /\ \E j \in DOMAIN jobs : jobs[j].status = "completed"
    /\ \E j \in DOMAIN jobs :
          jobs[j].status = "failed" /\ jobs[j].retries >= max_retries /\ tr[j].execs >= 2

(***************************************************************************)
(* C6. When activate(type, shard, v), run without another call in between, *)
(* succeeds for an existing row v that was in status building, then        *)
(* get_active(type, shard) returns the row with version v, the row that    *)
(* was active before the call is stale and is returned by get_stale, and   *)
(* no other row of (type, shard) is active.                                *)
(***************************************************************************)
C6_ActivateSwaps ==
    \A t \in Threads :
        (pc[t] = "act_commit" /\ loc[t].wasBuilding) =>
            /\ get_active(rows, "bm25", loc[t].sh) # NoRow
            /\ get_active(rows, "bm25", loc[t].sh).version = loc[t].v
            /\ \A r \in rows : r.id = loc[t].prev =>
                   (r.status = "stale" /\ r \in get_stale(rows))
            /\ \A r \in ActiveRows(rows, "bm25", loc[t].sh) : r.version = loc[t].v

\* activate has just swapped a building row in for a previously active one
C6_Witness ==
    \E t \in Threads :
        /\ pc[t] = "act_commit"
        /\ loc[t].wasBuilding
        /\ loc[t].prev # 0
        /\ get_active(rows, "bm25", loc[t].sh).version = loc[t].v
        /\ \E r \in get_stale(rows) : r.id = loc[t].prev

(***************************************************************************)
(* C7. Whenever a builder's activate(type, shard, v) succeeds, v is        *)
(* greater than the version that was active before it: the active version  *)
(* number of a (type, shard) never moves backwards.                        *)
(***************************************************************************)
C7_VersionsNeverGoBack ==
    \A t \in Threads :
        pc[t] = "act_commit" =>
            \A r \in rows : r.id = loc[t].prev => r.version < loc[t].v

(***************************************************************************)
(* C8 as stated: a job whose handler always raises is executed             *)
(* max_retries + 1 times and ends failed with retries = max_retries + 1.   *)
(***************************************************************************)
C8_RunsRPlusOne ==
    \A j \in DOMAIN jobs :
        (jobs[j].job_type = "bad" /\ Settled(j)) =>
            /\ tr[j].execs = max_retries + 1
            /\ jobs[j].retries = max_retries + 1

(***************************************************************************)
(* C8 amended. With max_retries = R, a job whose handler always raises is  *)
(* executed by the worker exactly R times (once when R = 0) and ends in    *)
(* status failed with retries = R (1 when R = 0).                          *)
(***************************************************************************)
C8_RunsRTimes ==
    \A j \in DOMAIN jobs :
        jobs[j].job_type = "bad" =>
            /\ tr[j].execs <= AtLeastOne(max_retries)
            /\ jobs[j].retries <= AtLeastOne(max_retries)
            /\ Settled(j) =>
                  /\ tr[j].execs = AtLeastOne(max_retries)
                  /\ jobs[j].retries = AtLeastOne(max_retries)

\* the always-raising job has been run max_retries = 2 times and stays failed
C8_Witness ==
    /\ max_retries = 2
    /\ \E j \in DOMAIN jobs :
          /\ jobs[j].job_type = "bad"
          /\ Settled(j)
          /\ tr[j].execs = 2
          /\ jobs[j].retries = 2

C10_NoHandlerFails ==
    \A j \in DOMAIN jobs :
        ~(jobs[j].job_type \in Handlers) =>
            /\ tr[j].execs = 0
            /\ jobs[j].status # "completed"
            /\ \A w \in Workers : Holding(w, j) => wk[w].pc = "nohandler"
            /\ (jobs[j].retries > 0 /\ ~tr[j].revived) => jobs[j].status = "failed"

\* a job without handler was failed once and is not retried although
\* its retries are below max_retries
C10_Witness ==
    \E j \in DOMAIN jobs :
        /\ jobs[j].job_type = "unknown"
        /\ Settled(j)
        /\ jobs[j].retries = 1
        /\ max_retries = 2
        /\ \A w \in Workers : wk[w].pc = "idle"

\* the status changes of the job life cycle: claim, complete, fail, retry,
\* stale recovery
LegalTransitions ==
    { <<"pending", "running">>, <<"running", "completed">>, <<"running", "failed">>,
      <<"failed", "pending">>, <<"running", "pending">> }

(***************************************************************************)
(* C11. Over any interleaving of workers, sweeps and retries, every status *)
(* change of a job is a claim (pending to running), a completion (running  *)
(* to completed), a failure (running to failed), a retry (failed to        *)
(* pending) or a stale recovery (running to pending); in particular a      *)
(* completed job never changes status again.                               *)
(***************************************************************************)
C11_LegalStatusChanges ==
    [][\A j \in DOMAIN jobs :
          (j \in DOMAIN jobs' /\ jobs'[j].status # jobs[j].status) =>
              <<jobs[j].status, jobs'[j].status>> \in LegalTransitions
      ]_vars

(***************************************************************************)
(* C12. In every state of the jobs table reached by any sequence of        *)
(* enqueue, claim_next, complete, fail, retry, recover_stale_running and   *)
(* cleanup_completed calls, a running job has started_at set and a         *)
(* completed or failed job has completed_at set.                           *)
(***************************************************************************)
C12_TimestampsSet ==
    \A j \in DOMAIN jobs :
        /\ jobs[j].status = "running" => jobs[j].started_at # Null
        /\ jobs[j].status \in {"completed", "failed"} => jobs[j].completed_at # Null

\* a job that was failed, retried (timestamps cleared) and claimed again is
\* running next to a completed one
C12_Witness ==
    /\ \E j \in DOMAIN jobs :
          /\ jobs[j].status = "running"
          /\ jobs[j].retries >= 1
          /\ jobs[j].started_at # Null
          /\ jobs[j].completed_at = Null
    /\ \E k \in DOMAIN jobs : jobs[k].status = "completed" /\ jobs[k].completed_at # Null

(***************************************************************************)
(* C13. claim_next returns, among the jobs pending when it is called (of   *)
(* the given job_type when one is given), a job with the smallest priority *)
(* number and, among those, the earliest created_at, and marks it running; *)
(* it returns None only when there is no such pending job.                 *)
(***************************************************************************)
C13_ClaimsFirstPending ==
    [][ret'.op = "claim_next" =>
          LET P == {j \in DOMAIN jobs :
                       /\ jobs[j].status = "pending"
                       /\ ret'.arg \in {"any", jobs[j].job_type}}
              c == ret'.val
          IN  IF P = {} THEN c = 0
              ELSE /\ c \in P
                   /\ jobs'[c].status = "running"
                   /\ \A k \in P :
                         \/ jobs[c].priority < jobs[k].priority
                         \/ /\ jobs[c].priority = jobs[k].priority
                            /\ jobs[c].created_at <= jobs[k].created_at
      ]_vars

\* claim_next has just returned a job although an older pending job of
\* lower urgency was waiting
C13_Witness ==
    /\ ret.op = "claim_next"
    /\ ret.val \in DOMAIN jobs
    /\ \E k \in DOMAIN jobs :
          /\ jobs[k].status = "pending"
          /\ ret.arg \in {"any", jobs[k].job_type}
          /\ jobs[k].created_at < jobs[ret.val].created_at
          /\ jobs[k].priority > jobs[ret.val].priority

(***************************************************************************)
(* C14. recover_stale_running(max_age) sets back to pending, with          *)
(* started_at cleared, every running job whose started_at lies more than   *)
(* max_age in the past, changes no other job, and returns the number of    *)
(* jobs it reset.                                                          *)
(***************************************************************************)
C14_RecoversEveryStaleJob ==
    [][ret'.op = "recover_stale_running" =>
          LET S == {j \in DOMAIN jobs :
                       /\ jobs[j].status = "running"
                       /\ jobs[j].started_at # Null
                       /\ jobs[j].started_at < now - ret'.arg}
          IN  /\ DOMAIN jobs' = DOMAIN jobs
              /\ \A j \in S : jobs'[j].status = "pending" /\ jobs'[j].started_at = Null
              /\ \A j \in DOMAIN jobs \ S : jobs'[j] = jobs[j]
              /\ ret'.val = Cardinality(S)
      ]_vars

(***************************************************************************)
(* C15. After cleanup_completed(keep_last = k) on a table with n completed *)
(* jobs, exactly min(k, n) completed jobs remain and they are the ones     *)
(* with the latest completed_at; the call returns n - min(k, n) and        *)
(* deletes or changes no job that is pending, running or failed.           *)
(***************************************************************************)
C15_CleanupKeepsLatest ==
    [][ret'.op = "cleanup_completed" =>
          LET C == {j \in DOMAIN jobs : jobs[j].status = "completed"}
              n == Cardinality(C)
              m == IF ret'.arg < n THEN ret'.arg ELSE n
              kept == C \cap DOMAIN jobs'
          IN  /\ Cardinality(kept) = m
              /\ \A i \in kept, j \in C \ kept :
                     jobs[i].completed_at >= jobs[j].completed_at
              /\ ret'.val = n - m
              /\ DOMAIN jobs' = (DOMAIN jobs \ C) \cup kept
              /\ \A j \in DOMAIN jobs' : jobs'[j] = jobs[j]
      ]_vars

\* cleanup_completed(1) has just deleted one of two completed jobs and kept one
C15_Witness ==
    /\ ret.op = "cleanup_completed"
    /\ ret.arg = 1
    /\ ret.val = 1
    /\ Cardinality({j \in DOMAIN jobs : jobs[j].status = "completed"}) = 1
    /\ \E j \in DOMAIN jobs : jobs[j].status = "completed" /\ jobs[j].completed_at > 0

(***************************************************************************)
(* C16. For any interleaving of concurrent search calls on one searcher,   *)
(* each index file (identified by its cache key) is read from disk at most *)
(* once, and all callers score against the same cached object.             *)
(***************************************************************************)
C16_LoadedOnce ==
    /\ \A k \in DOMAIN loads : loads[k] <= 1
    /\ \A s1, s2 \in Searchers :
          (sr[s1].pc = "scored" /\ sr[s2].pc = "scored" /\ sr[s1].key = sr[s2].key)
              => sr[s1].obj = sr[s2].obj

(***************************************************************************)
(* C17. A search that starts after activate(bm25, shard, v) has returned   *)
(* is scored against the index content built for version v or a later      *)
(* one, never against the content of an earlier version, for any sequence  *)
(* of builds (also concurrent builds of one shard) and searches.           *)
(***************************************************************************)
C17_SearchSeesActivated ==
    \A s \in Searchers :
        sr[s].pc = "scored" => sr[s].obj.v >= sr[s].floor

\* C18: a version that a build has activated for a shard was built from
\* the documents of every subreddit the plan assigns to that shard.
C18_BuildCoversShard ==
    \A t \in Threads :
        pc[t] = "act_commit" /\ PathOf(loc[t].sh, loc[t].v) \in DOMAIN files =>
            subreddits_in(plan, loc[t].sh) \subseteq
                files[PathOf(loc[t].sh, loc[t].v)].subs

\* C19: the shards a bm25 search scores are the shards the router resolves
\* for the same subreddit, plan and active versions.
C19_SearchScansResolved ==
    ret.op = "search" => ret.val.out = ret.val.routed

\* C20: with a subreddit given, resolve returns the assigned shard if it has
\* an active version, else shard_<subreddit> if that is another shard with
\* an active version, else nothing; whatever it returns has an active version.
C20_ResolveContract ==
    ret.op = "resolve" /\ ret.arg[1] # "none" =>
        LET sid == get_shard_id(ret.val.plan, ret.arg[1])
            legacy == LegacyShard(Normalize(ret.arg[1]))
            act == ret.val.active
            out == ret.val.out
        IN  /\ out = IF sid \in act THEN <<sid>>
                     ELSE IF legacy # sid /\ legacy \in act THEN <<legacy>>
                     ELSE << >>
            /\ \A i \in 1..Len(out) : out[i] \in act

\* a resolve that fell back to shard_<subreddit> of a grouped subreddit
C20_Witness ==
    /\ ret.op = "resolve"
    /\ ret.arg[1] # "none"
    /\ get_shard_id(ret.val.plan, ret.arg[1]) = GroupedShard
    /\ ret.val.out = <<LegacyShard(Normalize(ret.arg[1]))>>

\* C21: compute_plan gives every subreddit of its input one shard: shard_<s>
\* when its count reaches the threshold, the grouped shard otherwise, and
\* assigns nothing else.
C21_PlanAssignsEveryInput ==
    ret.op = "compute_plan" /\ FromBuildAll(ret.arg) =>
        /\ DOMAIN ret.val = {Normalize(ret.arg[i].sub) : i \in 1..Len(ret.arg)}
        /\ \A i \in 1..Len(ret.arg) :
              ret.val[Normalize(ret.arg[i].sub)] =
                  IF ret.arg[i].count >= MinDocsForOwnShard
                  THEN LegacyShard(Normalize(ret.arg[i].sub))
                  ELSE GroupedShard

\* a plan for one subreddit exactly at the threshold and one below it
C21_Witness ==
    /\ ret.op = "compute_plan"
    /\ FromBuildAll(ret.arg)
    /\ \E i, j \in 1..Len(ret.arg) :
          /\ ret.arg[i].count = MinDocsForOwnShard
          /\ ret.arg[j].count = MinDocsForOwnShard - 1
          /\ ret.val[Normalize(ret.arg[i].sub)] = LegacyShard(Normalize(ret.arg[i].sub))
          /\ ret.val[Normalize(ret.arg[j].sub)] = GroupedShard

\* C22: a build that finds no documents returns the zero summary and changes
\* neither index_versions nor the index files; only a build that has
\* documents writes a file and goes on to insert a row.
C22_EmptyBuildChangesNothing ==
    [][/\ \A t \in Threads :
              pc[t] = "idle" /\ pc'[t] = "insert" =>
                  files'[PathOf(loc'[t].sh, loc'[t].v)].subs # {}
       /\ ret' # ret /\ ret'.op = "build" =>
              /\ ret'.val = [version |-> 0, doc_count |-> 0]
              /\ \A u \in ret'.arg[2] :
                     get_all_for_subreddit(raw, processed, Normalize(u)) = {}
              /\ rows' = rows
              /\ committed' = committed
              /\ seq' = seq
              /\ files' = files]_vars

\* an empty build of a shard that has an active version, which is still active
C22_Witness ==
    /\ ret.op = "build"
    /\ \A u \in ret.arg[2] : get_all_for_subreddit(raw, processed, Normalize(u)) = {}
    /\ get_active(rows, "bm25", ret.arg[1]) # NoRow
    /\ get_active(committed, "bm25", ret.arg[1]) # NoRow
    /\ \A t \in Threads : pc[t] = "idle"

\* C23: when activate raises inside a build, the build's index file and its
\* 'building' row remain, and the version that activate found active is
\* active again once the failed call has returned.
C23_FailedActivateKeepsActive ==
    [][\A t \in Threads :
          pc[t] = "rollback" /\ pc'[t] = "idle" /\ loc[t].op = "build" =>
              /\ loc[t].prev # NoRow.id =>
                     \E r \in rows' : r.id = loc[t].prev /\ r.status = "active"
              /\ \E r \in RowsOf(rows', "bm25", loc[t].sh) :
                     r.version = loc[t].v /\ r.status = "building"
              /\ PathOf(loc[t].sh, loc[t].v) \in DOMAIN files']_vars

\* the shards of a search whose active version's file is absent / is
\* neither cached nor on disk / would fail to load
ScanActive(subreddit) ==
    {sh \in PlanShards :
        /\ \E i \in 1..Len(Bm25Shards(rows, subreddit)) : Bm25Shards(rows, subreddit)[i] = sh
        /\ get_active(rows, "bm25", sh) # NoRow}

ScanKey(sh) == PathOf(sh, get_active(rows, "bm25", sh).version)

FileAbsent(subreddit) ==
    {sh \in ScanActive(subreddit) : ScanKey(sh) \notin DOMAIN files}

Unreadable(subreddit) ==
    {sh \in ScanActive(subreddit) :
        /\ ScanKey(sh) \notin DOMAIN cache
        /\ ScanKey(sh) \in DOMAIN files
        /\ files[ScanKey(sh)] = Corrupt}

\* C24 as stated: a search skips every shard whose active version's file is
\* absent, does not raise because of it, returns the hits of the other
\* shards and caches nothing for the absent file.
C24_AbsentFileSkipped ==
    [][ret' # ret /\ ret'.op = "scan" =>
          /\ \A sh \in FileAbsent(ret'.arg) :
                /\ \A h \in ret'.val.hits : h[1] # sh
                /\ ScanKey(sh) \notin DOMAIN cache'
          /\ Unreadable(ret'.arg) = {} =>
                /\ ~ret'.val.raised
                /\ {h[1] : h \in ret'.val.hits} =
                       ScanActive(ret'.arg) \ FileAbsent(ret'.arg)]_vars

\* C24 for the files the searcher has not loaded before: such a shard is
\* skipped and the miss is not cached; a shard already in the cache is served
\* from the cache whether or not its file is still on disk.
C24_UncachedAbsentFileSkipped ==
    [][ret' # ret /\ ret'.op = "scan" =>
          /\ \A sh \in FileAbsent(ret'.arg) :
                ScanKey(sh) \notin DOMAIN cache =>
                    /\ \A h \in ret'.val.hits : h[1] # sh
                    /\ ScanKey(sh) \notin DOMAIN cache'
          /\ Unreadable(ret'.arg) = {} =>
                /\ ~ret'.val.raised
                /\ {h[1] : h \in ret'.val.hits} =
                       {sh \in ScanActive(ret'.arg) :
                           ScanKey(sh) \in DOMAIN cache \cup DOMAIN files}]_vars

\* a search over two active shards, one of them with its file absent and
\* never loaded, that returned the hits of the other
C24_Witness ==
    /\ ret.op = "scan"
    /\ ~ret.val.raised
    /\ ret.val.hits # {}
    /\ \E sh \in FileAbsent(ret.arg) :
          /\ ScanKey(sh) \notin DOMAIN cache
          /\ \A h \in ret.val.hits : h[1] # sh

\* C25: a search does not raise when the index of one of its shards cannot
\* be loaded; it returns the hits of the shards that can be served.
C25_LoadFailureSkipped ==
    [][ret' # ret /\ ret'.op = "scan" =>
          /\ ~ret'.val.raised
          /\ {h[1] : h \in ret'.val.hits} =
                 {sh \in ScanActive(ret'.arg) \ Unreadable(ret'.arg) :
                     ScanKey(sh) \in DOMAIN cache \cup DOMAIN files}]_vars

\* C26: when insert(t, s1) on a trie without t is followed by insert(t, s2),
\* the score stored for t is max(s1, s2) and size is one more than before
\* the first insert.
C26_InsertKeepsMax ==
    [][/\ ret.op = "insert"
       /\ ret'.op = "insert"
       /\ ret' # ret
       /\ ret.val.fresh
       /\ Lower(ret'.arg[1]) = Lower(ret.arg[1])
       => /\ trie'.score[Lower(ret.arg[1])] = Max2(ret.arg[2], ret'.arg[2])
          /\ trie'.size = ret.val.before + 1]_vars

\* the stored terms that start with lower(prefix)
Matching(tri, prefix) ==
    {p \in tri.terminal : Len(p) >= Len(prefix) /\ SubSeq(p, 1, Len(prefix)) = Lower(prefix)}

\* C27: search(prefix, k) never raises and returns min(k, m) suggestions, all
\* of them stored terms with the prefix, in descending score order, none
\* scored lower than a matching term that was left out.
C27_SearchTopK ==
    [][ret'.op = "trie_search" =>
          LET out == ret'.val.out
              m == Matching(trie, ret'.arg[1])
              found == {out[i][2] : i \in 1..Len(out)}
          IN  /\ ~ret'.val.raised
              /\ Len(out) = Min2(ret'.arg[2], Cardinality(m))
              /\ Cardinality(found) = Len(out)
              /\ found \subseteq m
              /\ \A i \in 1..Len(out) : out[i][1] = trie.score[out[i][2]]
              /\ \A i, j \in 1..Len(out) : i < j => out[i][1] >= out[j][1]
              /\ \A p \in m \ found, q \in found : trie.score[p] <= trie.score[q]]_vars

\* C28: get_unprocessed_ids(v) returns the ids of the raw posts that have no
\* processed row of pipeline_version >= v, and returns each of them once.
C28_UnprocessedExact ==
    [][ret'.op = "get_unprocessed_ids" =>
          LET out == ret'.val
              want == {id \in RawIds(raw) :
                          ~(id \in DOMAIN processed /\ processed[id] >= ret'.arg)}
          IN  /\ {out[i] : i \in 1..Len(out)} = want
              /\ Len(out) = Cardinality(want)]_vars

\* a call that returned one raw post without a processed row or with a stale
\* one, and left out a raw post processed at the asked version
C28_Witness ==
    /\ ret.op = "get_unprocessed_ids"
    /\ Len(ret.val) = 1
    /\ \E id \in RawIds(raw) \cap DOMAIN processed :
          processed[id] >= ret.arg /\ ret.val[1] # id
    /\ ret.val[1] \in RawIds(raw)

\* ceil(n / p), and 1 for an empty list
PagesOf(n, p) == IF n = 0 THEN 1 ELSE (n + p - 1) \div p

\* C29: the pages of a walk from offset 0 along next_cursor are consecutive
\* slices of the hits, each of at most page_size items; the cursor is null
\* exactly on page ceil(n/p) (page 1 of an empty list), when every hit has
\* been returned once and in order.
C29_WalkCoversHits ==
    ret.op = "page" =>
        LET n == ret.arg[1]
            p == ret.arg[2]
            v == ret.val
        IN  /\ Len(v.page.items) <= p
            /\ v.seen = SubSeq(Hits(n), 1, Len(v.seen))
            /\ v.pages <= PagesOf(n, p)
            /\ (v.page.next_cursor = NoCursor) = (v.pages = PagesOf(n, p))
            /\ v.page.next_cursor = NoCursor => v.seen = Hits(n)
            /\ v.page.next_cursor # NoCursor =>
                   decode_cursor(v.page.next_cursor) = Len(v.seen)

\* a finished walk of three pages whose last page is not full
C29_Witness ==
    /\ ret.op = "page"
    /\ ret.val.pages = 3
    /\ ret.val.page.next_cursor = NoCursor
    /\ Len(ret.val.page.items) < ret.arg[2]
    /\ ret.val.seen = Hits(ret.arg[1])

\* C30: with refill_rate 0, of the is_allowed calls decided so far for a
\* client key the first LimCapacity were allowed and no other one, whatever
\* the callers of the other keys did.
C30_FirstCAllowed ==
    \A k \in ClientKeys : lim.allowed[k] = Min2(LimCapacity, lim.calls[k])

\* both keys exhausted: each had a call refused after LimCapacity allowed ones
C30_Witness ==
    \A k \in ClientKeys : lim.calls[k] > LimCapacity /\ lim.allowed[k] = LimCapacity

\* C31 (as stated): every fused score returned by linear_combination lies in
\* [0, 1], whatever the hit lists and the weights.
C31_FusedInUnitInterval ==
    ret.op = "linear_combination" =>
        \A i \in 1..Len(ret.val) : ret.val[i].score >= 0 /\ ret.val[i].score <= Micro

\* C31 (amended): for weights that are not negative and sum to at most 1,
\* every fused score and every per-source score returned lies in [0, 1].
C31_FusedInUnitIntervalForConvexWeights ==
    (ret.op = "linear_combination"
     /\ \A i \in 1..3 : ret.arg.weights[i] >= 0
     /\ ret.arg.weights[1] + ret.arg.weights[2] + ret.arg.weights[3] <= WeightUnit) =>
        \A i \in 1..Len(ret.val) :
            /\ ret.val[i].score >= 0 /\ ret.val[i].score <= Micro
            /\ ret.val[i].bm25_score >= 0 /\ ret.val[i].bm25_score <= Micro
            /\ ret.val[i].tfidf_score >= 0 /\ ret.val[i].tfidf_score <= Micro
            /\ ret.val[i].vector_score >= 0 /\ ret.val[i].vector_score <= Micro

\* the default weights, three non-empty lists, a doc found by all three that
\* gets the score 1.0 and one that gets less
C31_Witness ==
    /\ ret.op = "linear_combination"
    /\ ret.arg.weights = <<14, 3, 3>>
    /\ \A i \in 1..3 : ret.arg.lists[i] = 2
    /\ Len(ret.val) = 2
    /\ ret.val[1].score = Micro
    /\ ret.val[2].score > 0 /\ ret.val[2].score < Micro

\* C32: a loaded index file is scored with the k1 and b recorded in the file:
\* what a search returns is what scoring the file with its own parameters
\* returns, whatever the settings of the searcher that loaded it.
C32_ScoredWithFileParameters ==
    ret.op = "bm25_score" =>
        ret.val = score(load(bm.file, Null, Null), ret.arg[1], ret.arg[2])

\* C36: score counts each distinct query term once: the result for a query
\* is the result for the query without its repeated tokens, scores and order.
C36_RepeatedTokenChangesNothing ==
    ret.op = "bm25_score" =>
        ret.val = LET ranked == StableDesc(ScoreDistinct(bm.loaded, ret.arg[1], 1, << >>))
                  IN  SubSeq(ranked, 1, Min2(ret.arg[2], Len(ranked)))

(***************************************************************************)
(* C33. After a handler failure the worker re-enqueues the job exactly     *)
(* when its retries counter, as fail left it, is below max_retries: a job  *)
(* whose handler always raises is put back to pending after each failure   *)
(* with a number below max_retries, is left failed by the failure with the *)
(* number max_retries (the first one when max_retries = 0), and then stays *)
(* failed.                                                                 *)
(***************************************************************************)
C33_RetriedWhileBelowLimit ==
    /\ [](\A j \in DOMAIN jobs :
            jobs[j].job_type = "bad" =>
                /\ \A w \in Workers :
                      (wk[w].id = j /\ wk[w].pc = "retry") =>
                          jobs[j].status = "failed" /\ jobs[j].retries < max_retries
                /\ jobs[j].status \in {"pending", "running"} =>
                      jobs[j].retries < AtLeastOne(max_retries)
                /\ Settled(j) => jobs[j].retries = AtLeastOne(max_retries))
    /\ [][\A j \in DOMAIN jobs :
            \A w \in Workers :
                /\ (jobs[j].job_type = "bad" /\ wk[w].id = j /\ wk[w].pc = "failed"
                    /\ wk'[w].pc = "idle") => jobs[j].retries >= max_retries
                /\ (jobs[j].job_type = "bad" /\ Settled(j)) =>
                      jobs'[j].status = "failed"]_vars

\* max_retries = 2: the job has failed once, was re-enqueued by the worker
\* and waits as pending for its second run
C33_Witness ==
    /\ max_retries = 2
    /\ \E j \in DOMAIN jobs :
          /\ jobs[j].job_type = "bad"
          /\ jobs[j].status = "pending"
          /\ jobs[j].retries = 1
          /\ tr[j].execs = 1
          /\ \A w \in Workers : wk[w].pc = "idle"

(***************************************************************************)
(* C34. Whatever the interleaving of concurrent builds of a shard, no two  *)
(* rows of index_versions have the same (index_type, shard_id, version),   *)
(* and no build writes the versioned file path that a build wrote before.  *)
(***************************************************************************)
C34_VersionsAndPathsUnique ==
    /\ [](\A r1 \in rows, r2 \in rows :
            (r1.index_type = r2.index_type /\ r1.shard_id = r2.shard_id
                /\ r1.version = r2.version) => r1.id = r2.id)
    /\ [][\A t \in Threads :
            (pc[t] = "idle" /\ pc'[t] = "insert") =>
                PathOf(loc'[t].sh, loc'[t].v) \notin DOMAIN files]_vars

(***************************************************************************)
(* C35. The admin retry endpoint resets a job to pending only when the job *)
(* is failed at the moment of the UPDATE: under any interleaving with the  *)
(* workers it never resets a pending, running or completed job.            *)
(***************************************************************************)
C35_AdminRetryOnlyFailed ==
    [][(adm.pc = "retry" /\ adm'.pc = "idle") =>
          jobs[adm.id].status = "failed"]_vars

(***************************************************************************)
(* C38. evict_stale never gives a client more than it would have had with  *)
(* its bucket kept: in a call of is_allowed that re-creates an evicted     *)
(* bucket, the tokens available are at most min(capacity, tokens held +    *)
(* refill_rate * elapsed time) of the bucket that was evicted.             *)
(***************************************************************************)
C38_EvictionGivesNoTokens ==
    (ret.op = "is_allowed" /\ ret.val.recreated) => ret.val.avail <= ret.val.kept

(***************************************************************************)
(* C39. Once the suggester has loaded the trie of a label, every later     *)
(* suggest for that label is answered from that same in-memory trie,       *)
(* without a look at the disk, also after the file was rebuilt or deleted. *)
(* A suggest for a label that is not loaded looks for the file; when it is *)
(* absent the call is answered from the "all" trie (or with nothing) and   *)
(* the label is not cached.                                                *)
(***************************************************************************)
C39_LoadedTrieIsKept ==
    /\ [](ret.op = "suggest" =>
            /\ ret.val.first # 0 =>
                  /\ ~ret.val.raised
                  /\ ret.val.served = ret.arg
                  /\ ret.val.trie = ret.val.first
                  /\ ~ret.val.probed
            /\ (~ret.val.probed /\ ~ret.val.raised) =>
                  ret.val.served = ret.arg /\ ret.val.trie # 0
            /\ ret.val.served \notin {ret.arg, "none"} => ret.val.served = "all")
    /\ [][\A l \in DOMAIN sg.cache :
            l \in DOMAIN sg'.cache /\ sg'.cache[l] = sg.cache[l]]_vars

\* a suggest for a loaded label was answered from the first trie although
\* the file on disk has since been rebuilt
C39_Witness ==
    /\ ret.op = "suggest"
    /\ ret.arg = "a"
    /\ ret.val.first # 0
    /\ ret.val.trie = ret.val.first
    /\ sg.files["a"] > ret.val.first

\* C37: for any interleaving of POST /pipeline/run requests for the same
\* subreddit, at most one pipeline thread of that subreddit is executing at
\* any time (a request that arrives during a run starts no second run).
C37_OneRunPerSubreddit ==
    \A sub \in Subreddits : Cardinality(RunningThreads(sub)) <= 1

\* a request was refused while the thread of its subreddit was in a stage
C37_Witness ==
    /\ ret.op = "run_pipeline"
    /\ ~ret.val.started
    /\ Cardinality(RunningThreads(ret.arg)) = 1

\* C40: activate(type, shard, v) changes the status of no row of a different
\* (index_type, shard_id), and changes the version, doc_count and file_path
\* of no row at all (it adds and removes no row either).
C40_ActivateFrame ==
    ret.op = "activate" =>
        /\ Cardinality(rows) = Cardinality(ret.val)
        /\ \A r \in ret.val :
              \E q \in rows :
                  /\ q.id = r.id
                  /\ q.index_type = r.index_type
                  /\ q.shard_id = r.shard_id
                  /\ q.version = r.version
                  /\ q.doc_count = r.doc_count
                  /\ q.file_path = r.file_path
                  /\ (r.index_type # ret.arg[1] \/ r.shard_id # ret.arg[2])
                        => q.status = r.status

\* an activate that changed the table while another shard of the same type
\* and the same shard of another type each had an active row
C40_Witness ==
    /\ ret.op = "activate"
    /\ rows # ret.val
    /\ \E r \in ret.val : /\ r.status = "active"
                          /\ r.index_type = ret.arg[1]
                          /\ r.shard_id # ret.arg[2]
    /\ \E r \in ret.val : /\ r.status = "active"
                          /\ r.index_type # ret.arg[1]
                          /\ r.shard_id = ret.arg[2]

====
